---- MODULE Spec2Model ----
(***************************************************************************)
(* A model of simplemseed: the Steim1/Steim2 codecs and their frame block, *)
(* the miniSEED-3 record (pack, unpack, CRC-32C) and the record merge.     *)
(* Python's zero-based offsets are kept in the operators' arguments; a     *)
(* byte string is a sequence of 0..255 and dataBytes[k] is At(dataBytes,k).*)
(***************************************************************************)
EXTENDS Integers, Sequences, FiniteSets, TLC

(***************************************************************************)
(* Bounds of the model.                                                    *)
(***************************************************************************)
\* the Steim encoders are handed the sample sequences of 1..MaxLen samples and
\* those of LongLen samples, which fill a frame also with two differences a word
MaxLen == 7
LongLen == 27
\* a carried-over encoding is cut after 1..MaxCut samples
MaxCut == 3
\* largest frame cap tried (0 means unlimited)
MaxFrames == 1
\* the decoders are asked for numSamples - 1 .. numSamples + MaxExtra samples
MaxExtra == 1

(***************************************************************************)
(* 32-bit words.  A uint32 is a sequence of 32 bits, most significant      *)
(* first; an int32 is an integer in -2^31 .. 2^31 - 1.                     *)
(***************************************************************************)
At(s, k) == s[k + 1]

Pow2Table ==
    << 1, 2, 4, 8, 16, 32, 64, 128, 256, 512, 1024, 2048, 4096, 8192, 16384, 32768, 65536,
       131072, 262144, 524288, 1048576, 2097152, 4194304, 8388608, 16777216, 33554432,
       67108864, 134217728, 268435456, 536870912, 1073741824 >>

Pow2(n) == Pow2Table[n + 1]

Int32Bits(v) ==
    [k \in 1..32 |-> IF k = 1 THEN (IF v < 0 THEN 1 ELSE 0)
                              ELSE (v \div Pow2(32 - k)) % 2]

RECURSIVE UVal(_, _)
UVal(b, n) == IF n = 0 THEN 0 ELSE 2 * UVal(b, n - 1) + b[n]

\* the int32 whose two's complement representation is b
BitsInt32(b) ==
    LET hi == UVal(b, 16)
        lo == UVal([k \in 1..16 |-> b[k + 16]], 16)
    IN  (IF hi >= 32768 THEN hi - 65536 ELSE hi) * 65536 + lo

Shl(b, n) == [k \in 1..32 |-> IF k + n <= 32 THEN b[k + n] ELSE 0]
Shr(b, n) == [k \in 1..32 |-> IF k - n >= 1 THEN b[k - n] ELSE 0]
Sar(b, n) == [k \in 1..32 |-> IF k - n >= 1 THEN b[k - n] ELSE b[1]]
BitOr(a, b) == [k \in 1..32 |-> IF a[k] = 1 \/ b[k] = 1 THEN 1 ELSE 0]
BitAnd(a, b) == [k \in 1..32 |-> IF a[k] = 1 /\ b[k] = 1 THEN 1 ELSE 0]

\* int32 addition and subtraction of numpy: the result wraps
Add32(a, b) ==
    IF a > 0 /\ b > 0 /\ a > 2147483647 - b
    THEN (a - 1073741824 - 1073741824) + (b - 1073741824 - 1073741824)
    ELSE IF a < 0 /\ b < 0 /\ a < (-2147483647 - 1) - b
    THEN (a + 1073741824 + 1073741824) + (b + 1073741824 + 1073741824)
    ELSE a + b

Sub32(a, b) ==
    IF b = -2147483647 - 1
    THEN (IF a < 0 THEN (a + 1073741824) + 1073741824
                   ELSE (a - 1073741824) - 1073741824)
    ELSE Add32(a, -b)

SByte(b) == IF b >= 128 THEN b - 256 ELSE b

\* numpy '>i4' tobytes of one word
Int32ToBytesBE(w) ==
    << (w \div 16777216) % 256, (w \div 65536) % 256, (w \div 256) % 256, w % 256 >>

getInt32(dataBytes, offset) ==
    SByte(At(dataBytes, offset)) * 16777216 + At(dataBytes, offset + 1) * 65536
        + At(dataBytes, offset + 2) * 256 + At(dataBytes, offset + 3)

getInt16(dataBytes, offset) ==
    SByte(At(dataBytes, offset)) * 256 + At(dataBytes, offset + 1)

getUint32(dataBytes, offset) ==
    [k \in 1..32 |-> (At(dataBytes, offset + ((k - 1) \div 8)) \div Pow2(7 - ((k - 1) % 8))) % 2]

\* (v >> shift) & 0x03 of a uint32
TwoBits(v, shift) == LET s == Shr(v, shift) IN 2 * s[31] + s[32]

(***************************************************************************)
(* SteimFrame and SteimFrameBlock (steimframeblock.py).  currentSteimFrame *)
(* is the index in steimFrameList of the frame being filled, 0 for None.   *)
(***************************************************************************)
SteimFrame == [word |-> [k \in 1..16 |-> 0], pos |-> 0]

SteimFrameBlock(maxNumFrames, steimVersion) ==
    [maxNumFrames |-> maxNumFrames, steimVersion |-> steimVersion, numSamples |-> 0,
     steimFrameList |-> << >>, currentFrame |-> 0, currentSteimFrame |-> 0]

\* addEncodingNibble shifting by the position, not by 15 less the position
addEncodingNibbleLow(fb, bitFlag) ==
    LET c == fb.currentSteimFrame
        f == fb.steimFrameList[c]
        shift == f.pos * 2
        w0 == BitsInt32(BitOr(Int32Bits(f.word[1]), Shl(Int32Bits(bitFlag), shift)))
    IN  [fb EXCEPT !.steimFrameList[c].word[1] = w0]

\* W0 |= bitFlag << (15 - pos) * 2, on the frame being filled
addEncodingNibble(fb, bitFlag) ==
    LET c == fb.currentSteimFrame
        f == fb.steimFrameList[c]
        shift == (15 - f.pos) * 2
        w0 == BitsInt32(BitOr(Int32Bits(f.word[1]), Shl(Int32Bits(bitFlag), shift)))
    IN  [fb EXCEPT !.steimFrameList[c].word[1] = w0]

\* addEncodedWord reporting the block full one frame late (> for >=)
addEncodedWordLateFull(fb, word, samples, nibble) ==
    LET fb1 == IF fb.currentSteimFrame = 0
               THEN LET opened == [fb EXCEPT
                            !.steimFrameList = Append(@, [SteimFrame EXCEPT !.pos = 1]),
                            !.currentSteimFrame = Len(fb.steimFrameList) + 1]
                    IN  [addEncodingNibble(opened, 0) EXCEPT !.currentFrame = @ + 1]
               ELSE fb
        c == fb1.currentSteimFrame
        pos == fb1.steimFrameList[c].pos
        fb2 == addEncodingNibble([fb1 EXCEPT !.steimFrameList[c].word[pos + 1] = word], nibble)
        fb3 == [fb2 EXCEPT !.numSamples = @ + samples]
    IN  IF pos + 1 > 15
        THEN [fb |-> [fb3 EXCEPT !.currentSteimFrame = 0],
              full |-> fb3.maxNumFrames > 0 /\ fb3.currentFrame > fb3.maxNumFrames]
        ELSE [fb |-> [fb3 EXCEPT !.steimFrameList[c].pos = pos + 1], full |-> FALSE]

addEncodedWord(fb, word, samples, nibble) ==
    LET fb1 == IF fb.currentSteimFrame = 0
               THEN LET opened == [fb EXCEPT
                            !.steimFrameList = Append(@, [SteimFrame EXCEPT !.pos = 1]),
                            !.currentSteimFrame = Len(fb.steimFrameList) + 1]
                    IN  [addEncodingNibble(opened, 0) EXCEPT !.currentFrame = @ + 1]
               ELSE fb
        c == fb1.currentSteimFrame
        pos == fb1.steimFrameList[c].pos
        fb2 == addEncodingNibble([fb1 EXCEPT !.steimFrameList[c].word[pos + 1] = word], nibble)
        fb3 == [fb2 EXCEPT !.numSamples = @ + samples]
    IN  IF pos + 1 > 15
        THEN [fb |-> [fb3 EXCEPT !.currentSteimFrame = 0],
              full |-> fb3.maxNumFrames > 0 /\ fb3.currentFrame >= fb3.maxNumFrames]
        ELSE [fb |-> [fb3 EXCEPT !.steimFrameList[c].pos = pos + 1], full |-> FALSE]

\* setXsubN leaving X(N) as it was
setXsubNUnset(fb, word) == fb

setXsubN(fb, word) == [fb EXCEPT !.steimFrameList[1].word[3] = word]

RECURSIVE FlattenWords(_, _)
FlattenWords(words, k) ==
    IF k > Len(words) THEN << >> ELSE Int32ToBytesBE(words[k]) \o FlattenWords(words, k + 1)

FramePack(f) == FlattenWords(f.word, 1)

RECURSIVE PackFrames(_, _)
PackFrames(frameList, k) ==
    IF k > Len(frameList) THEN << >> ELSE FramePack(frameList[k]) \o PackFrames(frameList, k + 1)

\* SteimFrameBlock.pack
BlockPack(fb) == PackFrames(fb.steimFrameList, 1)

(***************************************************************************)
(* Steim decoding (steim1.py, steim2.py).  A decoder's result is           *)
(* [err, samples]; err is TRUE where the code raises.                      *)
(***************************************************************************)
DecodeFailed == [err |-> TRUE, samples |-> << >>]

\* what one word of a Steim1 frame adds to the frame's values (the body of the for loop)
Steim1Word(dataBytes, offset, i) ==
    LET currNibble == TwoBits(getUint32(dataBytes, offset), 30 - i * 2)
        o == offset + i * 4
    IN  CASE currNibble = 0 -> IF offset = 0 THEN << getInt32(dataBytes, o) >> ELSE << >>
          [] currNibble = 1 -> << SByte(At(dataBytes, o)), SByte(At(dataBytes, o + 1)),
                                  SByte(At(dataBytes, o + 2)), SByte(At(dataBytes, o + 3)) >>
          [] currNibble = 2 -> << getInt16(dataBytes, o), getInt16(dataBytes, o + 2) >>
          [] OTHER -> << getInt32(dataBytes, o) >>

RECURSIVE Steim1Words(_, _, _)
Steim1Words(dataBytes, offset, i) ==
    IF i > 15 THEN << >>
    ELSE Steim1Word(dataBytes, offset, i) \o Steim1Words(dataBytes, offset, i + 1)

extractSteim1Samples(dataBytes, offset) == Steim1Words(dataBytes, offset, 0)

\* for j in range(firstData, len(tempSamples)): samples[current] = lastValue + tempSamples[j]
RECURSIVE Integrate(_, _, _, _, _)
Integrate(tempSamples, j, samples, lastValue, numSamples) ==
    IF j >= Len(tempSamples) \/ Len(samples) >= numSamples
    THEN [samples |-> samples, lastValue |-> lastValue]
    ELSE LET x == Add32(lastValue, At(tempSamples, j))
         IN  Integrate(tempSamples, j + 1, Append(samples, x), x, numSamples)

RECURSIVE Steim1Frames(_, _, _, _, _, _)
Steim1Frames(dataBytes, numSamples, bias, i, samples, lastValue) ==
    IF i >= Len(dataBytes) \div 64 THEN samples
    ELSE LET tempSamples == extractSteim1Samples(dataBytes, i * 64)
             firstData == IF i = 0 THEN 3 ELSE 0
             lv == IF i = 0
                   THEN (IF bias = 0 THEN Sub32(At(tempSamples, 1), At(tempSamples, 3)) ELSE bias)
                   ELSE lastValue
             r == Integrate(tempSamples, firstData, samples, lv, numSamples)
         IN  Steim1Frames(dataBytes, numSamples, bias, i + 1, r.samples, r.lastValue)

decodeSteim1(dataBytes, numSamples, bias) ==
    IF Len(dataBytes) % 64 # 0 THEN DecodeFailed
    ELSE LET samples == Steim1Frames(dataBytes, numSamples, bias, 0, << >>, 0)
         IN  IF Len(samples) # numSamples THEN DecodeFailed
             ELSE [err |-> FALSE, samples |-> samples]

extractDnibValues(tempInt, headerSize, diffCount, bitSize) ==
    [d \in 1..diffCount |->
        BitsInt32(Sar(Shl(tempInt, headerSize + (d - 1) * bitSize),
                      (diffCount - 1) * bitSize + headerSize))]

\* what one word of a Steim2 frame adds: [err, vals]
Steim2Word(dataBytes, offset, i) ==
    LET currNibble == TwoBits(getUint32(dataBytes, offset), 30 - i * 2)
        o == offset + i * 4
        tempInt == getUint32(dataBytes, o)
        dnib == TwoBits(tempInt, 30)
        ok(v) == [err |-> FALSE, vals |-> v]
        bad == [err |-> TRUE, vals |-> << >>]
    IN  CASE currNibble = 0 -> ok(IF offset = 0 THEN << getInt32(dataBytes, o) >> ELSE << >>)
          [] currNibble = 1 -> ok(<< SByte(At(dataBytes, o)), SByte(At(dataBytes, o + 1)),
                                     SByte(At(dataBytes, o + 2)), SByte(At(dataBytes, o + 3)) >>)
          [] currNibble = 2 ->
               CASE dnib = 1 -> ok(extractDnibValues(tempInt, 2, 1, 30))
                 [] dnib = 2 -> ok(extractDnibValues(tempInt, 2, 2, 15))
                 [] dnib = 3 -> ok(extractDnibValues(tempInt, 2, 3, 10))
                 [] OTHER -> bad
          [] OTHER ->
               CASE dnib = 0 -> ok(extractDnibValues(tempInt, 2, 5, 6))
                 [] dnib = 1 -> ok(extractDnibValues(tempInt, 2, 6, 5))
                 [] dnib = 2 -> ok(extractDnibValues(tempInt, 4, 7, 4))
                 [] OTHER -> bad

RECURSIVE Steim2Words(_, _, _)
Steim2Words(dataBytes, offset, i) ==
    IF i > 15 THEN [err |-> FALSE, vals |-> << >>]
    ELSE LET w == Steim2Word(dataBytes, offset, i)
         IN  IF w.err THEN w
             ELSE LET rest == Steim2Words(dataBytes, offset, i + 1)
                  IN  [err |-> rest.err, vals |-> w.vals \o rest.vals]

extractSteim2Samples(dataBytes, offset) ==
    LET headNib == TwoBits(getUint32(dataBytes, offset), 30)
    IN  IF headNib # 0 THEN [err |-> TRUE, vals |-> << >>]
        ELSE Steim2Words(dataBytes, offset, 0)

RECURSIVE Steim2Frames(_, _, _, _, _, _)
Steim2Frames(dataBytes, numSamples, bias, i, samples, lastValue) ==
    IF i >= Len(dataBytes) \div 64 THEN [err |-> FALSE, samples |-> samples]
    ELSE LET e == extractSteim2Samples(dataBytes, i * 64)
             tempSamples == e.vals
             firstData == IF i = 0 THEN 3 ELSE 0
             lv == IF i = 0
                   THEN (IF bias = 0 THEN Sub32(At(tempSamples, 1), At(tempSamples, 3)) ELSE bias)
                   ELSE lastValue
             r == Integrate(tempSamples, firstData, samples, lv, numSamples)
         IN  IF e.err THEN DecodeFailed
             ELSE Steim2Frames(dataBytes, numSamples, bias, i + 1, r.samples, r.lastValue)

decodeSteim2(dataBytes, numSamples, bias) ==
    IF Len(dataBytes) % 64 # 0 THEN DecodeFailed
    ELSE LET r == Steim2Frames(dataBytes, numSamples, bias, 0, << >>, 0)
         IN  IF r.err \/ Len(r.samples) # numSamples THEN DecodeFailed
             ELSE [err |-> FALSE, samples |-> r.samples]

(***************************************************************************)
(* Steim encoding.  An encoder's result is [err, fb]: err is TRUE where    *)
(* the code raises, fb is the SteimFrameBlock returned.                    *)
(***************************************************************************)
EncodeFailed == [err |-> TRUE, fb |-> SteimFrameBlock(0, 0)]

\* curSize: how many bytes the difference fills
Steim1Size(d) ==
    IF d <= 127 /\ d >= -128 THEN 1
    ELSE IF d <= 32767 /\ d >= -32768 THEN 2
    ELSE 4

\* the scan without the step from three differences down to two
RECURSIVE Steim1ScanKeepThree(_, _, _, _, _, _, _, _)
Steim1ScanKeepThree(samples, bias, offset, sampleIndex, i, diff, diffCount, maxSize) ==
    IF i > 3 \/ ~(sampleIndex + i < Len(samples))
    THEN [diff |-> diff, diffCount |-> diffCount]
    ELSE LET d == IF sampleIndex = offset /\ i = 0
                  THEN Sub32(At(samples, offset), bias)
                  ELSE At(samples, sampleIndex + i) - At(samples, sampleIndex + i - 1)
             diff1 == [diff EXCEPT ![i + 1] = d]
             count == diffCount + 1
             curSize == Steim1Size(d)
             size == IF curSize > maxSize THEN curSize ELSE maxSize
         IN  IF size * count = 4 THEN [diff |-> diff1, diffCount |-> count]
             ELSE IF size * count > 4 THEN [diff |-> diff1, diffCount |-> count - 1]
             ELSE Steim1ScanKeepThree(samples, bias, offset, sampleIndex, i + 1, diff1, count, size)

\* the for i in range(4) loop of encodeSteim1FrameBlock: [diff, diffCount]
RECURSIVE Steim1Scan(_, _, _, _, _, _, _, _)
Steim1Scan(samples, bias, offset, sampleIndex, i, diff, diffCount, maxSize) ==
    IF i > 3 \/ ~(sampleIndex + i < Len(samples))
    THEN [diff |-> diff, diffCount |-> diffCount]
    ELSE LET d == IF sampleIndex = offset /\ i = 0
                  THEN Sub32(At(samples, offset), bias)
                  ELSE At(samples, sampleIndex + i) - At(samples, sampleIndex + i - 1)
             diff1 == [diff EXCEPT ![i + 1] = d]
             count == diffCount + 1
             curSize == Steim1Size(d)
             size == IF curSize > maxSize THEN curSize ELSE maxSize
         IN  IF size * count = 4 THEN [diff |-> diff1, diffCount |-> count]
             ELSE IF size * count > 4
             THEN [diff |-> diff1,
                   diffCount |-> IF count - 1 = 3 THEN count - 2 ELSE count - 1]
             ELSE Steim1Scan(samples, bias, offset, sampleIndex, i + 1, diff1, count, size)

\* the encoded word as it lands in the frame's int32 array
Steim1PackWord(diff, diffCount) ==
    IF diffCount = 1 THEN diff[1]
    ELSE IF diffCount = 2
    THEN BitsInt32(BitOr(Shl(Int32Bits(diff[1] % 65536), 16), Int32Bits(diff[2] % 65536)))
    ELSE BitsInt32(BitOr(BitOr(Shl(Int32Bits(diff[1] % 256), 24), Shl(Int32Bits(diff[2] % 256), 16)),
                         BitOr(Shl(Int32Bits(diff[3] % 256), 8), Int32Bits(diff[4] % 256))))

Steim1Nibble(diffCount) == IF diffCount = 1 THEN 3 ELSE IF diffCount = 2 THEN 2 ELSE 1

\* the loop counting four samples for a word of four byte fields that holds three
RECURSIVE Steim1LoopCountFour(_, _, _, _, _, _)
Steim1LoopCountFour(samples, bias, offset, sampleIndex, diff, fb) ==
    IF ~(sampleIndex < Len(samples)) THEN fb
    ELSE LET s == Steim1Scan(samples, bias, offset, sampleIndex, 0, diff, 0, 0)
             r == addEncodedWord(fb, Steim1PackWord(s.diff, s.diffCount),
                                 IF s.diffCount = 3 THEN 4 ELSE s.diffCount,
                                 Steim1Nibble(s.diffCount))
         IN  IF r.full
             THEN setXsubN(r.fb, At(samples, sampleIndex + s.diffCount - 1))
             ELSE Steim1LoopCountFour(samples, bias, offset, sampleIndex + s.diffCount, s.diff, r.fb)

\* the while sampleIndex < len(samples) loop of encodeSteim1FrameBlock
RECURSIVE Steim1Loop(_, _, _, _, _, _)
Steim1Loop(samples, bias, offset, sampleIndex, diff, fb) ==
    IF ~(sampleIndex < Len(samples)) THEN fb
    ELSE LET s == Steim1Scan(samples, bias, offset, sampleIndex, 0, diff, 0, 0)
             r == addEncodedWord(fb, Steim1PackWord(s.diff, s.diffCount), s.diffCount,
                                 Steim1Nibble(s.diffCount))
         IN  IF r.full
             THEN setXsubN(r.fb, At(samples, sampleIndex + s.diffCount - 1))
             ELSE Steim1Loop(samples, bias, offset, sampleIndex + s.diffCount, s.diff, r.fb)

encodeSteim1FrameBlock(samples, frames, bias, offset) ==
    IF Len(samples) = 0 \/ frames < 0 \/ offset < 0 \/ offset >= Len(samples)
    THEN EncodeFailed
    ELSE LET fb0 == SteimFrameBlock(frames, 1)
             fb1 == addEncodedWord(fb0, At(samples, offset), 0, 0).fb
             fb2 == addEncodedWord(fb1, At(samples, Len(samples) - 1), 0, 0).fb
         IN  [err |-> FALSE,
              fb |-> Steim1Loop(samples, bias, offset, offset, <<0, 0, 0, 0>>, fb2)]

minBitsNeeded(diff) ==
    IF -8 <= diff /\ diff < 8 THEN 4
    ELSE IF -16 <= diff /\ diff < 16 THEN 5
    ELSE IF -32 <= diff /\ diff < 32 THEN 6
    ELSE IF -128 <= diff /\ diff < 128 THEN 8
    ELSE IF -512 <= diff /\ diff < 512 THEN 10
    ELSE IF -16384 <= diff /\ diff < 16384 THEN 15
    ELSE IF -536870912 <= diff /\ diff < 536870912 THEN 30
    ELSE 32

bitsForPack(minbits, points_remaining) ==
    LET fit(n, bits) == points_remaining >= n /\ \A k \in 1..n : minbits[k] <= bits
    IN  IF fit(7, 4) THEN 4
        ELSE IF fit(6, 5) THEN 5
        ELSE IF fit(5, 6) THEN 6
        ELSE IF fit(4, 8) THEN 8
        ELSE IF fit(3, 10) THEN 10
        ELSE IF fit(2, 15) THEN 15
        ELSE IF fit(1, 30) THEN 30
        ELSE 32

RECURSIVE steimPackLoop(_, _, _, _, _, _)
steimPackLoop(diff, nbits, ndiff, bitmask, i, val) ==
    IF ~(i < ndiff) THEN val
    ELSE steimPackLoop(diff, nbits, ndiff, bitmask, i + 1,
                       BitOr(Shl(val, nbits), BitAnd(Int32Bits(At(diff, i)), Int32Bits(bitmask))))

\* steimPackWord without the & bitmask on each difference
RECURSIVE steimPackLoopUnmasked(_, _, _, _, _)
steimPackLoopUnmasked(diff, nbits, ndiff, i, val) ==
    IF ~(i < ndiff) THEN val
    ELSE steimPackLoopUnmasked(diff, nbits, ndiff, i + 1,
                               BitOr(Shl(val, nbits), Int32Bits(At(diff, i))))

steimPackWordUnmasked(diff, nbits, ndiff, bitmask, submask) ==
    LET val == steimPackLoopUnmasked(diff, nbits, ndiff, 0, Int32Bits(0))
    IN  BitsInt32(IF submask # 0 THEN BitOr(val, Shl(Int32Bits(submask), 30)) ELSE val)

steimPackWord(diff, nbits, ndiff, bitmask, submask) ==
    LET val == steimPackLoop(diff, nbits, ndiff, bitmask, 0, Int32Bits(0))
    IN  BitsInt32(IF submask # 0 THEN BitOr(val, Shl(Int32Bits(submask), 30)) ELSE val)

\* the packing chosen for nbits: [ndiff, bitmask, submask, nibble]
Steim2Packing(nbits) ==
    CASE nbits = 4 -> [ndiff |-> 7, bitmask |-> 15, submask |-> 2, nibble |-> 3]
      [] nbits = 5 -> [ndiff |-> 6, bitmask |-> 31, submask |-> 1, nibble |-> 3]
      [] nbits = 6 -> [ndiff |-> 5, bitmask |-> 63, submask |-> 0, nibble |-> 3]
      [] nbits = 8 -> [ndiff |-> 4, bitmask |-> 255, submask |-> 0, nibble |-> 1]
      [] nbits = 10 -> [ndiff |-> 3, bitmask |-> 1023, submask |-> 3, nibble |-> 2]
      [] nbits = 15 -> [ndiff |-> 2, bitmask |-> 32767, submask |-> 2, nibble |-> 2]
      [] OTHER -> [ndiff |-> 1, bitmask |-> 1073741823, submask |-> 1, nibble |-> 2]

\* the scan taking the first sample itself as the first difference, the bias ignored
RECURSIVE Steim2ScanNoBias(_, _, _, _, _, _, _)
Steim2ScanNoBias(samples, bias, sampleIndex, i, diff, minbits, points_remaining) ==
    IF i > 6 \/ ~(sampleIndex + i < Len(samples))
    THEN [diff |-> diff, minbits |-> minbits, points_remaining |-> points_remaining]
    ELSE LET d == IF sampleIndex + i = 0
                  THEN At(samples, 0)
                  ELSE At(samples, sampleIndex + i) - At(samples, sampleIndex + i - 1)
         IN  Steim2ScanNoBias(samples, bias, sampleIndex, i + 1, [diff EXCEPT ![i + 1] = d],
                              [minbits EXCEPT ![i + 1] = minBitsNeeded(d)], points_remaining + 1)

\* the for i in range(7) loop of encodeSteim2FrameBlock: [diff, minbits, points_remaining]
RECURSIVE Steim2Scan(_, _, _, _, _, _, _)
Steim2Scan(samples, bias, sampleIndex, i, diff, minbits, points_remaining) ==
    IF i > 6 \/ ~(sampleIndex + i < Len(samples))
    THEN [diff |-> diff, minbits |-> minbits, points_remaining |-> points_remaining]
    ELSE LET d == IF sampleIndex + i = 0
                  THEN Sub32(At(samples, 0), bias)
                  ELSE At(samples, sampleIndex + i) - At(samples, sampleIndex + i - 1)
         IN  Steim2Scan(samples, bias, sampleIndex, i + 1, [diff EXCEPT ![i + 1] = d],
                        [minbits EXCEPT ![i + 1] = minBitsNeeded(d)], points_remaining + 1)

\* the while sampleIndex < len(samples) loop of encodeSteim2FrameBlock: [err, fb]
RECURSIVE Steim2Loop(_, _, _, _, _, _)
Steim2Loop(samples, bias, sampleIndex, diff, minbits, fb) ==
    IF ~(sampleIndex < Len(samples)) THEN [err |-> FALSE, fb |-> fb]
    ELSE LET s == Steim2Scan(samples, bias, sampleIndex, 0, diff, minbits, 0)
             nbits == bitsForPack(s.minbits, s.points_remaining)
             p == Steim2Packing(nbits)
             word == steimPackWord(s.diff, nbits, p.ndiff, p.bitmask, p.submask)
             r == addEncodedWord(fb, word, p.ndiff, p.nibble)
         IN  IF nbits = 32 THEN EncodeFailed
             ELSE IF r.full
             THEN [err |-> FALSE,
                   fb |-> setXsubN(r.fb, At(samples, sampleIndex + p.ndiff - 1))]
             ELSE Steim2Loop(samples, bias, sampleIndex + p.ndiff, s.diff, s.minbits, r.fb)

encodeSteim2FrameBlock(samples, frames, bias) ==
    IF Len(samples) = 0 \/ frames < 0 THEN EncodeFailed
    ELSE LET fb0 == SteimFrameBlock(frames, 2)
             fb1 == addEncodedWord(fb0, At(samples, 0), 0, 0).fb
             fb2 == addEncodedWord(fb1, At(samples, Len(samples) - 1), 0, 0).fb
         IN  Steim2Loop(samples, bias, 0, <<0, 0, 0, 0, 0, 0, 0>>, <<0, 0, 0, 0, 0, 0, 0>>, fb2)

encodeSteim1(samples, frames, bias, offset) ==
    LET r == encodeSteim1FrameBlock(samples, frames, bias, offset)
    IN  [err |-> r.err, dataBytes |-> IF r.err THEN << >> ELSE BlockPack(r.fb)]

encodeSteim2(samples, frames, bias) ==
    LET r == encodeSteim2FrameBlock(samples, frames, bias)
    IN  [err |-> r.err, dataBytes |-> IF r.err THEN << >> ELSE BlockPack(r.fb)]

(***************************************************************************)
(* Bytes of the miniSEED-3 record (mseed3.py): struct's little-endian      *)
(* fields, UTF-8, IEEE-754 doubles and the CRC-32C.  A uint32 too wide for *)
(* an integer here (the CRC) is the pair <<high 16 bits, low 16 bits>>; a  *)
(* float is its IEEE-754 bit pattern, sign bit first.                      *)
(***************************************************************************)
\* struct "<B", "<H", "<I" of a value below 2^31
U8(v) == << v % 256 >>
U16LE(v) == << v % 256, (v \div 256) % 256 >>
U32LE(v) == << v % 256, (v \div 256) % 256, (v \div 65536) % 256, (v \div 16777216) % 256 >>

\* struct "<I" of a CRC and back
CrcLE(crc) == U16LE(crc[2]) \o U16LE(crc[1])
CrcFromLE(b, offset) ==
    << At(b, offset + 2) + 256 * At(b, offset + 3), At(b, offset) + 256 * At(b, offset + 1) >>

FromU16LE(b, offset) == At(b, offset) + 256 * At(b, offset + 1)
\* struct "<I" read back; the model's own uint32 fields stay below 2^31
FromU32LE(b, offset) ==
    At(b, offset) + 256 * At(b, offset + 1) + 65536 * At(b, offset + 2)
        + 16777216 * (At(b, offset + 3) % 128)

\* a ^ b on n-bit values, bit by bit
RECURSIVE XorN(_, _, _)
XorN(a, b, n) ==
    IF n = 0 THEN 0 ELSE ((a + b) % 2) + 2 * XorN(a \div 2, b \div 2, n - 1)

\* a ^ b on 4-bit values as a table (row a + 1, column b + 1), and on wider
\* values from it
NibXor == <<
    << 0, 1, 2, 3, 4, 5, 6, 7, 8, 9, 10, 11, 12, 13, 14, 15 >>,
    << 1, 0, 3, 2, 5, 4, 7, 6, 9, 8, 11, 10, 13, 12, 15, 14 >>,
    << 2, 3, 0, 1, 6, 7, 4, 5, 10, 11, 8, 9, 14, 15, 12, 13 >>,
    << 3, 2, 1, 0, 7, 6, 5, 4, 11, 10, 9, 8, 15, 14, 13, 12 >>,
    << 4, 5, 6, 7, 0, 1, 2, 3, 12, 13, 14, 15, 8, 9, 10, 11 >>,
    << 5, 4, 7, 6, 1, 0, 3, 2, 13, 12, 15, 14, 9, 8, 11, 10 >>,
    << 6, 7, 4, 5, 2, 3, 0, 1, 14, 15, 12, 13, 10, 11, 8, 9 >>,
    << 7, 6, 5, 4, 3, 2, 1, 0, 15, 14, 13, 12, 11, 10, 9, 8 >>,
    << 8, 9, 10, 11, 12, 13, 14, 15, 0, 1, 2, 3, 4, 5, 6, 7 >>,
    << 9, 8, 11, 10, 13, 12, 15, 14, 1, 0, 3, 2, 5, 4, 7, 6 >>,
    << 10, 11, 8, 9, 14, 15, 12, 13, 2, 3, 0, 1, 6, 7, 4, 5 >>,
    << 11, 10, 9, 8, 15, 14, 13, 12, 3, 2, 1, 0, 7, 6, 5, 4 >>,
    << 12, 13, 14, 15, 8, 9, 10, 11, 4, 5, 6, 7, 0, 1, 2, 3 >>,
    << 13, 12, 15, 14, 9, 8, 11, 10, 5, 4, 7, 6, 1, 0, 3, 2 >>,
    << 14, 15, 12, 13, 10, 11, 8, 9, 6, 7, 4, 5, 2, 3, 0, 1 >>,
    << 15, 14, 13, 12, 11, 10, 9, 8, 7, 6, 5, 4, 3, 2, 1, 0 >> >>

Xor8(a, b) == NibXor[(a \div 16) + 1][(b \div 16) + 1] * 16 + NibXor[(a % 16) + 1][(b % 16) + 1]
Xor16(a, b) == Xor8(a \div 256, b \div 256) * 256 + Xor8(a % 256, b % 256)
Xor32(x, y) == << Xor16(x[1], y[1]), Xor16(x[2], y[2]) >>

\* one bit of the reflected CRC-32C division (polynomial 0x82F63B78)
CrcShift(x) ==
    LET shifted == << x[1] \div 2, (x[2] \div 2) + 32768 * (x[1] % 2) >>
    IN  IF x[2] % 2 = 1 THEN Xor32(shifted, << 33526, 15224 >>) ELSE shifted

RECURSIVE CrcShifts(_, _)
CrcShifts(x, n) == IF n = 0 THEN x ELSE CrcShifts(CrcShift(x), n - 1)

\* the table of the byte-wise CRC-32C as << high 16 bits, low 16 bits >>:
\* entry n + 1 is CrcShifts(<< 0, n >>, 8)
CrcTable == <<
    << 0, 0 >>, << 62059, 33539 >>, << 57659, 28919 >>, << 4944, 62452 >>,
    << 51098, 38687 >>, << 13809, 5148 >>, << 9889, 59368 >>, << 54474, 25835 >>,
    << 35545, 22735 >>, << 30898, 56268 >>, << 27618, 10296 >>, << 39305, 43835 >>,
    << 19779, 53200 >>, << 48936, 19667 >>, << 44152, 48935 >>, << 24083, 15396 >>,
    << 4190, 51055 >>, << 57909, 17516 >>, << 61797, 47000 >>, << 782, 13467 >>,
    << 55236, 20592 >>, << 9647, 54131 >>, << 14079, 8327 >>, << 50324, 41860 >>,
    << 39559, 40864 >>, << 26860, 7331 >>, << 31676, 61271 >>, << 35287, 27732 >>,
    << 23837, 2239 >>, << 44918, 35772 >>, << 48166, 30792 >>, << 20045, 64331 >>,
    << 8381, 36574 >>, << 53974, 3549 >>, << 49542, 65065 >>, << 13293, 32042 >>,
    << 59175, 6593 >>, << 5452, 39618 >>, << 1564, 26934 >>, << 62583, 59957 >>,
    << 43620, 54801 >>, << 22543, 21778 >>, << 19295, 42726 >>, << 47412, 9701 >>,
    << 28158, 16654 >>, << 40853, 49677 >>, << 36037, 12793 >>, << 32430, 45818 >>,
    << 12515, 18865 >>, << 49800, 51890 >>, << 53720, 14662 >>, << 9139, 47685 >>,
    << 63353, 57006 >>, << 1298, 23981 >>, << 5698, 44633 >>, << 58409, 11610 >>,
    << 47674, 4478 >>, << 18513, 37501 >>, << 23297, 24969 >>, << 43370, 57994 >>,
    << 32160, 34401 >>, << 36811, 1378 >>, << 40091, 63126 >>, << 28400, 30101 >>,
    << 16763, 7612 >>, << 45840, 40639 >>, << 41024, 27979 >>, << 21035, 61000 >>,
    << 34529, 35491 >>, << 29834, 2464 >>, << 26586, 64084 >>, << 38321, 31063 >>,
    << 52130, 17779 >>, << 14793, 50800 >>, << 10905, 13700 >>, << 55538, 46727 >>,
    << 3128, 53868 >>, << 65107, 20847 >>, << 60675, 41627 >>, << 8040, 8600 >>,
    << 20773, 56019 >>, << 41806, 22992 >>, << 45086, 43556 >>, << 17013, 10535 >>,
    << 38591, 19916 >>, << 25812, 52943 >>, << 30596, 15675 >>, << 34287, 48696 >>,
    << 56316, 33308 >>, << 10647, 287 >>, << 15047, 62187 >>, << 51372, 29160 >>,
    << 7270, 5379 >>, << 60941, 38400 >>, << 64861, 26100 >>, << 3894, 59127 >>,
    << 25030, 37730 >>, << 37805, 4193 >>, << 33021, 58261 >>, << 29334, 24726 >>,
    << 42588, 1149 >>, << 21559, 34686 >>, << 18279, 29834 >>, << 46348, 63369 >>,
    << 60191, 52141 >>, << 6516, 18606 >>, << 2596, 47962 >>, << 63567, 14425 >>,
    << 11397, 23730 >>, << 57070, 57265 >>, << 52670, 11333 >>, << 16341, 44870 >>,
    << 29080, 21517 >>, << 33779, 55054 >>, << 37027, 9466 >>, << 25288, 43001 >>,
    << 46594, 49938 >>, << 17513, 16401 >>, << 22329, 46053 >>, << 42322, 12518 >>,
    << 64321, 3266 >>, << 2346, 36801 >>, << 6778, 31797 >>, << 59409, 65334 >>,
    << 15579, 39901 >>, << 52912, 6366 >>, << 56800, 60202 >>, << 12171, 26665 >>,
    << 33526, 15224 >>, << 28829, 47227 >>, << 25549, 19343 >>, << 37286, 51340 >>,
    << 17772, 44135 >>, << 46855, 12132 >>, << 42071, 56464 >>, << 22076, 24467 >>,
    << 2095, 25527 >>, << 64068, 57524 >>, << 59668, 4928 >>, << 7039, 36931 >>,
    << 53173, 62632 >>, << 15838, 30635 >>, << 11918, 33887 >>, << 56549, 1884 >>,
    << 37544, 64535 >>, << 24771, 32532 >>, << 29587, 36064 >>, << 33272, 4067 >>,
    << 21810, 27400 >>, << 42841, 59403 >>, << 46089, 7167 >>, << 18018, 39164 >>,
    << 6257, 42200 >>, << 59930, 10203 >>, << 63818, 54319 >>, << 2849, 22316 >>,
    << 57323, 13255 >>, << 11648, 45252 >>, << 16080, 17200 >>, << 52411, 49203 >>,
    << 41547, 46502 >>, << 20512, 13989 >>, << 17264, 50513 >>, << 45339, 18002 >>,
    << 26065, 8889 >>, << 38842, 41402 >>, << 34026, 21070 >>, << 30337, 53581 >>,
    << 10386, 60777 >>, << 56057, 28266 >>, << 51625, 40350 >>, << 15298, 7837 >>,
    << 61192, 31350 >>, << 7523, 63861 >>, << 3635, 2689 >>, << 64600, 35202 >>,
    << 45589, 29385 >>, << 16510, 61898 >>, << 21294, 574 >>, << 41285, 33085 >>,
    << 30095, 58838 >>, << 34788, 26325 >>, << 38068, 38177 >>, << 26335, 5666 >>,
    << 14540, 10758 >>, << 51879, 43269 >>, << 55799, 23281 >>, << 11164, 55794 >>,
    << 65366, 48409 >>, << 3389, 15898 >>, << 7789, 52718 >>, << 60422, 20205 >>,
    << 50061, 9924 >>, << 12774, 42439 >>, << 8886, 22067 >>, << 53469, 54576 >>,
    << 1047, 45531 >>, << 63100, 13016 >>, << 58668, 49452 >>, << 5959, 16943 >>,
    << 18772, 32267 >>, << 47935, 64776 >>, << 43119, 3836 >>, << 23044, 36351 >>,
    << 36558, 59668 >>, << 31909, 27159 >>, << 28661, 39395 >>, << 40350, 6880 >>,
    << 54227, 57771 >>, << 8632, 25256 >>, << 13032, 37212 >>, << 49283, 4703 >>,
    << 5193, 30388 >>, << 58914, 62903 >>, << 62834, 1603 >>, << 1817, 34112 >>,
    << 22794, 47460 >>, << 43873, 14951 >>, << 47153, 51603 >>, << 19034, 19088 >>,
    << 40592, 11899 >>, << 27899, 44408 >>, << 32683, 24204 >>, << 36288, 56719 >>,
    << 58160, 43034 >>, << 4443, 11033 >>, << 523, 55533 >>, << 61536, 23534 >>,
    << 9386, 16133 >>, << 54977, 48134 >>, << 50577, 20466 >>, << 14330, 52465 >>,
    << 27113, 61653 >>, << 39810, 29654 >>, << 35026, 32802 >>, << 31417, 801 >>,
    << 44659, 26570 >>, << 23576, 58569 >>, << 20296, 5949 >>, << 48419, 37950 >>,
    << 62318, 28533 >>, << 261, 60534 >>, << 4693, 8066 >>, << 57406, 40065 >>,
    << 13556, 63594 >>, << 50847, 31593 >>, << 54735, 34973 >>, << 10148, 2974 >>,
    << 31159, 14266 >>, << 35804, 46265 >>, << 39052, 18253 >>, << 27367, 50254 >>,
    << 48685, 41125 >>, << 19526, 9126 >>, << 24342, 53330 >>, << 44413, 21329 >> >>

\* one byte b into the running remainder x
CrcByte(x, b) ==
    Xor32(CrcTable[Xor8(x[2] % 256, b) + 1],
          << x[1] \div 256, (x[2] \div 256) + 256 * (x[1] % 256) >>)

\* the bytes buf[lo..hi], in order, into the running remainder x (looked at
\* first, so that it is a value before the bytes are taken): the first half, then
\* the second half
RECURSIVE CrcBytes(_, _, _, _)
CrcBytes(buf, lo, hi, x) ==
    IF x \notin Seq(Nat) \/ lo > hi THEN x
    ELSE IF lo = hi THEN CrcByte(x, buf[lo])
    ELSE CrcBytes(buf, ((lo + hi) \div 2) + 1, hi, CrcBytes(buf, lo, (lo + hi) \div 2, x))

\* a checksum that stops after the fixed header: later bytes leave it unchanged
crc32cOfFixedHeader(buf, value) ==
    IF value # << 0, 0 >> THEN value
    ELSE Xor32(CrcBytes(buf, 1, IF Len(buf) < 40 THEN Len(buf) ELSE 40, << 65535, 65535 >>),
               << 65535, 65535 >>)

\* crc32c.crc32c(buf, value): the CRC-32C of buf, continuing from value
crc32c(buf, value) ==
    Xor32(CrcBytes(buf, 1, Len(buf), Xor32(value, << 65535, 65535 >>)), << 65535, 65535 >>)

\* str.encode("UTF-8") of a string of code points below 2048
RECURSIVE utf8Encode(_)
utf8Encode(str) ==
    IF str = << >> THEN << >>
    ELSE LET c == Head(str)
         IN  (IF c < 128 THEN << c >> ELSE << 192 + (c \div 64), 128 + (c % 64) >>)
                 \o utf8Encode(Tail(str))

\* bytes.decode("utf-8"): [err, str], err where the bytes are no UTF-8 of such a string
RECURSIVE utf8Decode(_)
utf8Decode(b) ==
    IF b = << >> THEN [err |-> FALSE, str |-> << >>]
    ELSE LET c == Head(b)
         IN  IF c < 128
             THEN LET r == utf8Decode(Tail(b))
                  IN  [err |-> r.err, str |-> << c >> \o r.str]
             ELSE IF c >= 194 /\ c < 224 /\ Len(b) >= 2 /\ b[2] >= 128 /\ b[2] < 192
             THEN LET r == utf8Decode(Tail(Tail(b)))
                  IN  [err |-> r.err, str |-> << (c - 192) * 64 + (b[2] - 128) >> \o r.str]
             ELSE [err |-> TRUE, str |-> << >>]


\* the n-bit pattern of v, 0 <= v < 2^n, n <= 31, most significant bit first
NBits(v, n) == [k \in 1..n |-> (v \div Pow2(n - k)) % 2]

\* floor(log2(a)) of a >= 1
RECURSIVE Log2(_)
Log2(a) == IF a < 2 THEN 0 ELSE 1 + Log2(a \div 2)

\* the float with expBits exponent bits and fracBits fraction bits that a whole
\* number v is converted to (exactly: |v| < 2^24)
FloatBits(v, expBits, fracBits) ==
    IF v = 0 THEN [k \in 1..(1 + expBits + fracBits) |-> 0]
    ELSE LET a == IF v < 0 THEN -v ELSE v
             e == Log2(a)
             frac == NBits(a - Pow2(e), e)
         IN  << IF v < 0 THEN 1 ELSE 0 >> \o NBits(Pow2(expBits - 1) - 1 + e, expBits)
                 \o [k \in 1..fracBits |-> IF k <= e THEN frac[k] ELSE 0]

F32(v) == FloatBits(v, 8, 23)
F64(v) == FloatBits(v, 11, 52)

\* the number a float holds, cut to a whole number below 2^30 in size (the
\* samples, rates and periods of the model are such whole numbers)
FloatWhole(bits, expBits, fracBits) ==
    LET e == UVal(SubSeq(bits, 2, 1 + expBits), expBits) - (Pow2(expBits - 1) - 1)
        a == IF e < 0 THEN 0
             ELSE IF e > 29 THEN Pow2(30)
             ELSE Pow2(e) + UVal(SubSeq(bits, 2 + expBits, 1 + expBits + e), e)
    IN  IF bits[1] = 1 THEN -a ELSE a

FloatInt(bits) == FloatWhole(bits, 11, 52)

\* the bytes of a bit pattern, first byte first, and back
BitsBytes(bits) ==
    [j \in 1..(Len(bits) \div 8) |-> UVal(SubSeq(bits, 8 * j - 7, 8 * j), 8)]
BytesBits(b) ==
    [k \in 1..(8 * Len(b)) |-> (b[((k - 1) \div 8) + 1] \div Pow2(7 - ((k - 1) % 8))) % 2]

Reverse(q) == [j \in 1..Len(q) |-> q[Len(q) + 1 - j]]

\* struct "<d" and numpy "<f4", "<f8": the pattern's bytes, last byte first
FloatLE(bits) == Reverse(BitsBytes(bits))
FloatFromLE(b, offset, size) == BytesBits(Reverse(SubSeq(b, offset + 1, offset + size)))

(***************************************************************************)
(* Extra headers.  A dict is the sequence of its <<key, value>> items, a   *)
(* key one character and a value one digit; a str is its code points.      *)
(***************************************************************************)
RECURSIVE jsonItems(_)
jsonItems(d) ==
    IF d = << >> THEN << >>
    ELSE << 34, d[1][1], 34, 58, 32, 48 + d[1][2] >>
             \o (IF Len(d) > 1 THEN << 44, 32 >> ELSE << >>) \o jsonItems(Tail(d))

\* json.dumps(d): {"k": 1, "m": 2}
jsonDumps(d) == << 123 >> \o jsonItems(d) \o << 125 >>

RECURSIVE StripSpaces(_)
StripSpaces(str) ==
    IF str = << >> THEN << >>
    ELSE (IF Head(str) = 32 THEN << >> ELSE << Head(str) >>) \o StripSpaces(Tail(str))

\* the items of "k":1,"m":2
RECURSIVE jsonParseItems(_)
jsonParseItems(t) ==
    IF t = << >> THEN [err |-> FALSE, dict |-> << >>]
    ELSE IF Len(t) >= 5 /\ t[1] = 34 /\ t[3] = 34 /\ t[4] = 58 /\ t[5] >= 48 /\ t[5] <= 57
                /\ (Len(t) = 5 \/ (Len(t) > 6 /\ t[6] = 44))
    THEN LET r == jsonParseItems(SubSeq(t, 7, Len(t)))
         IN  [err |-> r.err, dict |-> << << t[2], t[5] - 48 >> >> \o r.dict]
    ELSE [err |-> TRUE, dict |-> << >>]

\* json.loads(str): [err, dict]
jsonLoads(str) ==
    LET t == StripSpaces(str)
    IN  IF Len(t) >= 2 /\ t[1] = 123 /\ t[Len(t)] = 125
        THEN jsonParseItems(SubSeq(t, 2, Len(t) - 1))
        ELSE [err |-> TRUE, dict |-> << >>]


(***************************************************************************)
(* The primitive codec.  A sample is a whole number, in a float array the   *)
(* float that holds it.                                                     *)
(***************************************************************************)
SHORT == 1
INTEGER == 3
FLOAT == 4
DOUBLE == 5
STEIM1 == 10
STEIM2 == 11
STEIM3 == 19
DWWSSN == 32

\* bytes per sample of a primitive encoding
SampleSize(encoding) ==
    IF encoding = SHORT THEN 2 ELSE IF encoding = DOUBLE THEN 8 ELSE 4

\* one sample as little-endian bytes
SampleLE(encoding, v) ==
    IF encoding = SHORT THEN U16LE(v % 65536)
    ELSE IF encoding = INTEGER THEN Reverse(Int32ToBytesBE(v))
    ELSE IF encoding = FLOAT THEN FloatLE(F32(v))
    ELSE FloatLE(F64(v))

RECURSIVE SamplesLE(_, _)
SamplesLE(encoding, values) ==
    IF values = << >> THEN << >>
    ELSE SampleLE(encoding, Head(values)) \o SamplesLE(encoding, Tail(values))

\* the samples as big-endian bytes
RECURSIVE SamplesBE(_, _)
SamplesBE(encoding, values) ==
    IF values = << >> THEN << >>
    ELSE Reverse(SampleLE(encoding, Head(values))) \o SamplesBE(encoding, Tail(values))

\* encode(data, encoding, littleEndian=True): the EncodedDataSegment of a numpy array
encode(values, encoding, littleEndian) ==
    [compressionType |-> encoding,
     dataBytes |-> IF littleEndian THEN SamplesLE(encoding, values)
                   ELSE SamplesBE(encoding, values),
     numSamples |-> Len(values)]

\* numpy.frombuffer(dataBytes, dtype, count=numSamples)
frombuffer(compressionType, dataBytes, numSamples, littleEndian) ==
    [j \in 1..numSamples |->
        LET size == SampleSize(compressionType)
            raw == SubSeq(dataBytes, (j - 1) * size + 1, j * size)
            be == IF littleEndian THEN Reverse(raw) ELSE raw
        IN  IF compressionType = SHORT \/ compressionType = DWWSSN THEN getInt16(be, 0)
            ELSE IF compressionType = INTEGER THEN getInt32(be, 0)
            ELSE IF compressionType = FLOAT THEN FloatWhole(BytesBits(be), 8, 23)
            ELSE FloatWhole(BytesBits(be), 11, 52)]

\* seedcodec.decompress: [err, samples]
decompress(compressionType, dataBytes, numSamples, littleEndian) ==
    IF numSamples = 0 THEN [err |-> FALSE, samples |-> << >>]
    ELSE IF compressionType \in {SHORT, DWWSSN, INTEGER, FLOAT, DOUBLE}
    THEN IF Len(dataBytes) < SampleSize(compressionType) * numSamples THEN DecodeFailed
         ELSE [err |-> FALSE,
               samples |-> frombuffer(compressionType, dataBytes, numSamples, littleEndian)]
    ELSE IF compressionType = STEIM1 THEN decodeSteim1(dataBytes, numSamples, 0)
    ELSE IF compressionType = STEIM2 THEN decodeSteim2(dataBytes, numSamples, 0)
    ELSE DecodeFailed

canDecompress(encoding) == encoding \in {SHORT, INTEGER, FLOAT, DOUBLE, STEIM1, STEIM2}

(***************************************************************************)
(* MSeed3Header and MSeed3Record (mseed3.py).  A record is [header,        *)
(* identifier, eh, data]: eh is the attribute _eh, [kind, val] with kind   *)
(* "none", "str" or "dict"; data is the attribute _data, [kind, val] with  *)
(* kind "none", "bytes" or "ndarray".  An operation that can raise returns *)
(* a record with the field err.                                            *)
(***************************************************************************)
CRC_OFFSET == 28
FIXED_HEADER_SIZE == 40
MS_FORMAT_VERSION_3 == 3
UNKNOWN_PUBLICATION_VERSION == 0

MSeed3Header ==
    [flags |-> 0, nanosecond |-> 0, year |-> 1970, dayOfYear |-> 1, hour |-> 0, minute |-> 0,
     second |-> 0, encoding |-> -1, sampleRatePeriod |-> F64(1), numSamples |-> 0,
     crc |-> << 0, 0 >>, publicationVersion |-> UNKNOWN_PUBLICATION_VERSION,
     identifierLength |-> 0, extraHeadersLength |-> 0, dataLength |-> 0]

\* what struct.pack_into(HEADER_PACK_FORMAT, ...) accepts: B, H and I fields in range
HeaderPackable(h) ==
    /\ \A v \in {h.flags, h.hour, h.minute, h.second, h.encoding, h.publicationVersion,
                 h.identifierLength} : v >= 0 /\ v <= 255
    /\ \A v \in {h.year, h.dayOfYear, h.extraHeadersLength} : v >= 0 /\ v <= 65535
    /\ \A v \in {h.nanosecond, h.numSamples, h.dataLength} : v >= 0

\* a header packed with numSamples in big-endian byte order
HeaderPackCountBigEndian(h) ==
    << 77, 83, 3 >> \o U8(h.flags) \o U32LE(h.nanosecond) \o U16LE(h.year)
        \o U16LE(h.dayOfYear) \o U8(h.hour) \o U8(h.minute) \o U8(h.second) \o U8(h.encoding)
        \o FloatLE(h.sampleRatePeriod) \o Reverse(U32LE(h.numSamples)) \o CrcLE(h.crc)
        \o U8(h.publicationVersion) \o U8(h.identifierLength) \o U16LE(h.extraHeadersLength)
        \o U32LE(h.dataLength)

\* MSeed3Header.pack
HeaderPack(h) ==
    << 77, 83, 3 >> \o U8(h.flags) \o U32LE(h.nanosecond) \o U16LE(h.year)
        \o U16LE(h.dayOfYear) \o U8(h.hour) \o U8(h.minute) \o U8(h.second) \o U8(h.encoding)
        \o FloatLE(h.sampleRatePeriod) \o U32LE(h.numSamples) \o CrcLE(h.crc)
        \o U8(h.publicationVersion) \o U8(h.identifierLength) \o U16LE(h.extraHeadersLength)
        \o U32LE(h.dataLength)

unpackMSeed3FixedHeader(recordBytes) ==
    IF Len(recordBytes) < FIXED_HEADER_SIZE THEN [err |-> TRUE, header |-> MSeed3Header]
    ELSE IF At(recordBytes, 0) # 77 \/ At(recordBytes, 1) # 83 \/ At(recordBytes, 2) # MS_FORMAT_VERSION_3
    THEN [err |-> TRUE, header |-> MSeed3Header]
    ELSE [err |-> FALSE,
          header |->
            [flags |-> At(recordBytes, 3),
             nanosecond |-> FromU32LE(recordBytes, 4),
             year |-> FromU16LE(recordBytes, 8),
             dayOfYear |-> FromU16LE(recordBytes, 10),
             hour |-> At(recordBytes, 12),
             minute |-> At(recordBytes, 13),
             second |-> At(recordBytes, 14),
             encoding |-> At(recordBytes, 15),
             sampleRatePeriod |-> FloatFromLE(recordBytes, 16, 8),
             numSamples |-> FromU32LE(recordBytes, 24),
             crc |-> CrcFromLE(recordBytes, 28),
             publicationVersion |-> At(recordBytes, 32),
             identifierLength |-> At(recordBytes, 33),
             extraHeadersLength |-> FromU16LE(recordBytes, 34),
             dataLength |-> FromU32LE(recordBytes, 36)]]

NoData == [kind |-> "none", dtype |-> 0, val |-> << >>]
NoExtraHeaders == [kind |-> "none", val |-> << >>]
NoRecord == [header |-> MSeed3Header, identifier |-> << >>, eh |-> NoExtraHeaders, data |-> NoData]
RecordFailed == [err |-> TRUE, rec |-> NoRecord]

\* MSeed3Record.__init__ with _internal_set_data: [err, rec].  The data is
\* [kind, dtype, val]: dtype is the encoding of an ndarray's dtype, 0 for bytes
MSeed3Record(header, identifier, dataArg, extraHeaders) ==
    LET encoding == IF dataArg.kind = "none" THEN 0
                    ELSE IF dataArg.kind = "bytes" THEN header.encoding
                    ELSE dataArg.dtype
        numSamples == IF dataArg.kind = "none" THEN 0
                      ELSE IF dataArg.kind = "bytes" THEN header.numSamples
                      ELSE Len(dataArg.val)
        h1 == IF header.encoding = -1 THEN [header EXCEPT !.encoding = encoding] ELSE header
        h2 == IF h1.numSamples = 0 THEN [h1 EXCEPT !.numSamples = numSamples] ELSE h1
    IN  IF h2.encoding # encoding \/ h2.numSamples # numSamples THEN RecordFailed
        ELSE [err |-> FALSE,
              rec |-> [header |-> h2, identifier |-> identifier, eh |-> extraHeaders,
                       data |-> dataArg]]


\* MSeed3Record.hasExtraHeaders
hasExtraHeaders(rec) ==
    IF rec.eh.kind = "none" THEN FALSE
    ELSE IF rec.eh.kind = "dict" THEN Len(rec.eh.val) > 0
    ELSE Len(rec.eh.val) > 2

\* the property MSeed3Record.eh: [err, rec, val], rec the record as the getter
\* leaves it (a str _eh replaced by the dict parsed from it), val what it returns
ehGet(rec) ==
    IF rec.eh.kind # "str" THEN [err |-> FALSE, rec |-> rec, val |-> rec.eh]
    ELSE LET parsed == IF Len(rec.eh.val) > 0 THEN jsonLoads(rec.eh.val)
                       ELSE [err |-> FALSE, dict |-> << >>]
             asDict == [kind |-> "dict", val |-> parsed.dict]
         IN  IF parsed.err THEN [err |-> TRUE, rec |-> rec, val |-> rec.eh]
             ELSE [err |-> FALSE, rec |-> [rec EXCEPT !.eh = asDict], val |-> asDict]

\* MSeed3Record.decompress: [err, samples]
RecordDecompress(rec) ==
    IF rec.data.kind = "none" THEN DecodeFailed
    ELSE IF rec.data.kind = "ndarray" THEN [err |-> FALSE, samples |-> rec.data.val]
    ELSE decompress(rec.header.encoding, rec.data.val, rec.header.numSamples,
                    rec.header.encoding \notin {STEIM1, STEIM2, STEIM3})

\* MSeed3Record.encodedDataBytes
encodedDataBytes(rec) ==
    IF rec.data.kind = "bytes" THEN rec.data.val
    ELSE encode(rec.data.val, rec.header.encoding, TRUE).dataBytes

\* struct.pack_into("<I", recordBytes, CRC_OFFSET, value)
PutCrc(recordBytes, value) ==
    [k \in 1..Len(recordBytes) |->
        IF k > CRC_OFFSET /\ k <= CRC_OFFSET + 4 THEN CrcLE(value)[k - CRC_OFFSET]
        ELSE recordBytes[k]]

\* MSeed3Record.pack: [err, rec, recordBytes], rec the record with the header as
\* pack leaves it (lengths and CRC set)
RecordPack(rec) ==
    LET identifierBytes == utf8Encode(rec.identifier)
        extraHeadersStr == IF rec.eh.kind = "dict" THEN jsonDumps(rec.eh.val)
                           ELSE IF rec.eh.kind = "str" THEN rec.eh.val
                           ELSE << >>
        extraHeadersBytes == utf8Encode(extraHeadersStr)
        encData == encode(rec.data.val, rec.header.encoding, TRUE)
        dataBytes == IF rec.data.kind = "none" THEN << >>
                     ELSE IF rec.data.kind = "bytes" THEN rec.data.val
                     ELSE encData.dataBytes
        h == [rec.header EXCEPT !.crc = << 0, 0 >>,
                                !.identifierLength = Len(identifierBytes),
                                !.extraHeadersLength = Len(extraHeadersBytes),
                                !.dataLength = Len(dataBytes)]
        zeroed == PutCrc(HeaderPack(h) \o identifierBytes \o extraHeadersBytes \o dataBytes,
                         << 0, 0 >>)
        crc == crc32c(zeroed, << 0, 0 >>)
    IN  IF rec.data.kind = "ndarray" /\ encData.compressionType # rec.header.encoding
        THEN [err |-> TRUE, rec |-> rec, recordBytes |-> << >>]
        ELSE IF ~HeaderPackable(h)
        THEN [err |-> TRUE, rec |-> [rec EXCEPT !.header = h], recordBytes |-> << >>]
        ELSE [err |-> FALSE, rec |-> [rec EXCEPT !.header = [h EXCEPT !.crc = crc]],
              recordBytes |-> PutCrc(zeroed, crc)]

\* b[lo:hi] of Python
Slice(b, lo, hi) == SubSeq(b, lo + 1, IF hi < Len(b) THEN hi ELSE Len(b))

UnpackFailed(why) == [err |-> TRUE, why |-> why, rec |-> NoRecord]

\* unpackMSeed3Record: [err, why, rec]
unpackMSeed3Record(recordBytes, check_crc) ==
    LET fixed == unpackMSeed3FixedHeader(recordBytes)
        ms3header == fixed.header
        crc0 == crc32c(PutCrc(Slice(recordBytes, 0, FIXED_HEADER_SIZE), << 0, 0 >>), << 0, 0 >>)
        offset1 == FIXED_HEADER_SIZE
        idBytes == Slice(recordBytes, offset1, offset1 + ms3header.identifierLength)
        crc1 == crc32c(idBytes, crc0)
        identifier == utf8Decode(idBytes)
        offset2 == offset1 + ms3header.identifierLength
        ehBytes == Slice(recordBytes, offset2, offset2 + ms3header.extraHeadersLength)
        crc2 == crc32c(ehBytes, crc1)
        extraHeadersStr == utf8Decode(ehBytes)
        offset3 == offset2 + ms3header.extraHeadersLength
        encodedData == Slice(recordBytes, offset3, offset3 + ms3header.dataLength)
        crc3 == crc32c(encodedData, crc2)
        ms3Rec == MSeed3Record(ms3header, identifier.str,
                               [kind |-> "bytes", dtype |-> 0, val |-> encodedData],
                               [kind |-> "str", val |-> extraHeadersStr.str])
    IN  IF fixed.err THEN UnpackFailed("header")
        ELSE IF identifier.err \/ extraHeadersStr.err THEN UnpackFailed("utf-8")
        ELSE IF check_crc /\ ms3header.crc # crc3 THEN UnpackFailed("crc")
        ELSE IF ms3Rec.err THEN UnpackFailed("record")
        ELSE [err |-> FALSE, why |-> "", rec |-> ms3Rec.rec]

\* the loop of readMSeed3Records going on to the next record after a CRC that
\* does not match
RECURSIVE ReadLoopSkipping(_, _, _, _)
ReadLoopSkipping(fileBytes, pos, check_crc, out) ==
    LET headBytes == Slice(fileBytes, pos, pos + FIXED_HEADER_SIZE)
        fixed == unpackMSeed3FixedHeader(headBytes)
        ms3header == fixed.header
        crc0 == crc32c(PutCrc(headBytes, << 0, 0 >>), << 0, 0 >>)
        pos1 == pos + Len(headBytes)
        identifierBytes == Slice(fileBytes, pos1, pos1 + ms3header.identifierLength)
        crc1 == crc32c(identifierBytes, crc0)
        identifier == utf8Decode(identifierBytes)
        pos2 == pos1 + Len(identifierBytes)
        ehBytes == Slice(fileBytes, pos2, pos2 + ms3header.extraHeadersLength)
        crc2 == crc32c(ehBytes, crc1)
        extraHeadersStr == utf8Decode(ehBytes)
        pos3 == pos2 + Len(ehBytes)
        encodedData == Slice(fileBytes, pos3, pos3 + ms3header.dataLength)
        crc3 == crc32c(encodedData, crc2)
        pos4 == pos3 + Len(encodedData)
        ms3 == MSeed3Record(ms3header, identifier.str,
                            [kind |-> "bytes", dtype |-> 0, val |-> encodedData],
                            [kind |-> "str", val |-> extraHeadersStr.str])
        raised(why) == [err |-> TRUE, why |-> why, out |-> out]
    IN  IF Len(headBytes) = 0 THEN [err |-> FALSE, why |-> "", out |-> out]
        ELSE IF fixed.err THEN raised("header")
        ELSE IF identifier.err THEN raised("utf-8")
        ELSE IF extraHeadersStr.err THEN raised("utf-8")
        ELSE IF check_crc /\ ms3header.crc # crc3
        THEN ReadLoopSkipping(fileBytes, pos4, check_crc, out)
        ELSE IF ms3.err THEN raised("record")
        ELSE ReadLoopSkipping(fileBytes, pos4, check_crc, Append(out, ms3.rec))

\* readMSeed3Records without matchsid and merge, from position pos of the file:
\* [err, why, out], out the records yielded before the end or the error
RECURSIVE ReadLoop(_, _, _, _)
ReadLoop(fileBytes, pos, check_crc, out) ==
    LET headBytes == Slice(fileBytes, pos, pos + FIXED_HEADER_SIZE)
        fixed == unpackMSeed3FixedHeader(headBytes)
        ms3header == fixed.header
        crc0 == crc32c(PutCrc(headBytes, << 0, 0 >>), << 0, 0 >>)
        pos1 == pos + Len(headBytes)
        identifierBytes == Slice(fileBytes, pos1, pos1 + ms3header.identifierLength)
        crc1 == crc32c(identifierBytes, crc0)
        identifier == utf8Decode(identifierBytes)
        pos2 == pos1 + Len(identifierBytes)
        ehBytes == Slice(fileBytes, pos2, pos2 + ms3header.extraHeadersLength)
        crc2 == crc32c(ehBytes, crc1)
        extraHeadersStr == utf8Decode(ehBytes)
        pos3 == pos2 + Len(ehBytes)
        encodedData == Slice(fileBytes, pos3, pos3 + ms3header.dataLength)
        crc3 == crc32c(encodedData, crc2)
        pos4 == pos3 + Len(encodedData)
        ms3 == MSeed3Record(ms3header, identifier.str,
                            [kind |-> "bytes", dtype |-> 0, val |-> encodedData],
                            [kind |-> "str", val |-> extraHeadersStr.str])
        raised(why) == [err |-> TRUE, why |-> why, out |-> out]
    IN  IF Len(headBytes) = 0 THEN [err |-> FALSE, why |-> "", out |-> out]
        ELSE IF fixed.err THEN raised("header")
        ELSE IF identifier.err THEN raised("utf-8")
        ELSE IF extraHeadersStr.err THEN raised("utf-8")
        ELSE IF check_crc /\ ms3header.crc # crc3 THEN raised("crc")
        ELSE IF ms3.err THEN raised("record")
        ELSE ReadLoop(fileBytes, pos4, check_crc, Append(out, ms3.rec))

readMSeed3Records(fileBytes, check_crc) == ReadLoop(fileBytes, 0, check_crc, << >>)


(***************************************************************************)
(* Times and merging (mseed3.py).  A datetime is [year, sec, us]: the       *)
(* seconds since the start of the year and the microseconds of the second;  *)
(* a timedelta is a whole number of microseconds.  The times of the model   *)
(* stay within one year.                                                    *)
(***************************************************************************)
\* datetime + timedelta
PlusMicros(t, d) ==
    [year |-> t.year, sec |-> t.sec + ((t.us + d) \div 1000000), us |-> (t.us + d) % 1000000]

\* datetime < datetime
TimeLess(t1, t2) ==
    \/ t1.year < t2.year
    \/ t1.year = t2.year /\ t1.sec < t2.sec
    \/ t1.year = t2.year /\ t1.sec = t2.sec /\ t1.us < t2.us

\* (t1 - t2).total_seconds() * 2 < limit microseconds, limit below 2000 seconds
TwiceDiffLess(t1, t2, limit) ==
    IF t1.year # t2.year THEN t1.year < t2.year
    ELSE IF t1.sec - t2.sec > 1000 THEN FALSE
    ELSE IF t1.sec - t2.sec < -1000 THEN TRUE
    ELSE 2 * ((t1.sec - t2.sec) * 1000000 + (t1.us - t2.us)) < limit

NoTime == [year |-> 1, sec |-> 0, us |-> 0]

\* MSeed3Header.samplePeriod in microseconds: [err, micros], err where the
\* division by a rate of zero raises
samplePeriod(h) ==
    LET r == FloatInt(h.sampleRatePeriod)
    IN  IF r < 0 THEN [err |-> FALSE, micros |-> -1 * r * 1000000]
        ELSE IF r = 0 THEN [err |-> TRUE, micros |-> 0]
        ELSE [err |-> FALSE, micros |-> 1000000 \div r]

\* MSeed3Header.starttime: [err, t], err where datetime() refuses the fields
starttime(h) ==
    IF h.year < 1 \/ h.year > 9999 \/ h.hour > 23 \/ h.minute > 59 \/ h.second > 59
           \/ h.nanosecond \div 1000 > 999999
    THEN [err |-> TRUE, t |-> NoTime]
    ELSE [err |-> FALSE,
          t |-> [year |-> h.year,
                 sec |-> (h.dayOfYear - 1) * 86400 + h.hour * 3600 + h.minute * 60 + h.second,
                 us |-> h.nanosecond \div 1000]]

\* the setter of MSeed3Header.starttime, from a datetime in UTC
SetStarttime(h, t) ==
    [h EXCEPT !.year = t.year, !.dayOfYear = (t.sec \div 86400) + 1,
              !.hour = (t.sec % 86400) \div 3600, !.minute = (t.sec % 3600) \div 60,
              !.second = t.sec % 60, !.nanosecond = t.us * 1000]

\* MSeed3Header.endtime: [err, t]
endtime(h) ==
    IF starttime(h).err \/ samplePeriod(h).err THEN [err |-> TRUE, t |-> NoTime]
    ELSE [err |-> FALSE,
          t |-> PlusMicros(starttime(h).t, samplePeriod(h).micros * (h.numSamples - 1))]

\* a copy of the header that leaves the sampling at the default
cloneWithoutRate(h) == [h EXCEPT !.sampleRatePeriod = MSeed3Header.sampleRatePeriod]

\* MSeed3Header.clone
clone(h) ==
    [flags |-> h.flags, nanosecond |-> h.nanosecond, year |-> h.year,
     dayOfYear |-> h.dayOfYear, hour |-> h.hour, minute |-> h.minute, second |-> h.second,
     encoding |-> h.encoding, sampleRatePeriod |-> h.sampleRatePeriod,
     numSamples |-> h.numSamples, crc |-> h.crc, publicationVersion |-> h.publicationVersion,
     identifierLength |-> h.identifierLength, extraHeadersLength |-> h.extraHeadersLength,
     dataLength |-> h.dataLength]

\* a check that asks only for the second record to start after the first ends
areCompatibleAnyGap(ms3a, ms3b) ==
    IF ms3a.identifier # ms3b.identifier \/ ms3a.header.encoding # ms3b.header.encoding
    THEN [err |-> FALSE, out |-> FALSE]
    ELSE IF endtime(ms3a.header).err \/ starttime(ms3b.header).err
    THEN [err |-> TRUE, out |-> FALSE]
    ELSE [err |-> FALSE, out |-> TimeLess(endtime(ms3a.header).t, starttime(ms3b.header).t)]

\* areCompatible with timeTolFactor = 0.5: [err, out], err where a time raises.
\* Each "out and ..." is evaluated only while out is still True
areCompatible(ms3a, ms3b) ==
    LET out4 == /\ ms3a.identifier = ms3b.identifier
                /\ ms3b.header.sampleRatePeriod = ms3b.header.sampleRatePeriod
                /\ ms3a.header.encoding = ms3b.header.encoding
                /\ ms3a.header.publicationVersion = ms3b.header.publicationVersion
        endA == endtime(ms3a.header)
        startB == starttime(ms3b.header)
        predNextStart == PlusMicros(starttime(ms3a.header).t,
                                    samplePeriod(ms3a.header).micros * ms3a.header.numSamples)
    IN  IF ~out4 THEN [err |-> FALSE, out |-> FALSE]
        ELSE IF endA.err \/ startB.err THEN [err |-> TRUE, out |-> FALSE]
        ELSE IF ~TimeLess(endA.t, startB.t) THEN [err |-> FALSE, out |-> FALSE]
        ELSE [err |-> FALSE,
              out |-> TwiceDiffLess(startB.t, predNextStart, samplePeriod(ms3a.header).micros)]

None == [none |-> TRUE]

\* mseed3merge: [err, out, a], out the list returned and a the first record as
\* the call leaves it (reading ms3a.eh replaces a str _eh by its dict)
mseed3merge(ms3a, ms3b) ==
    LET compatible == areCompatible(ms3a, ms3b)
        header == [clone(ms3a.header) EXCEPT
                       !.numSamples = ms3a.header.numSamples + ms3b.header.numSamples]
        dataBytes == encodedDataBytes(ms3a) \o encodedDataBytes(ms3b)
        got == ehGet(ms3a)
        copied == jsonLoads(jsonDumps(got.val.val))
        eh == IF hasExtraHeaders(ms3a) THEN [kind |-> "dict", val |-> copied.dict]
              ELSE NoExtraHeaders
        after == IF hasExtraHeaders(ms3a) THEN got.rec ELSE ms3a
        merged == MSeed3Record(header, ms3a.identifier,
                               [kind |-> "bytes", dtype |-> 0, val |-> dataBytes], eh)
    IN  IF ms3a = None /\ ms3b # None THEN [err |-> FALSE, out |-> << ms3b >>, a |-> ms3a]
        ELSE IF ms3a # None /\ ms3b = None THEN [err |-> FALSE, out |-> << ms3a >>, a |-> ms3a]
        ELSE IF ms3a = None /\ ms3b = None THEN [err |-> FALSE, out |-> << None >>, a |-> ms3a]
        ELSE IF ms3a.header.encoding = 0 \/ ms3a.header.encoding > 5
        THEN [err |-> FALSE, out |-> << ms3a, ms3b >>, a |-> ms3a]
        ELSE IF compatible.err THEN [err |-> TRUE, out |-> << >>, a |-> ms3a]
        ELSE IF ~compatible.out THEN [err |-> FALSE, out |-> << ms3a, ms3b >>, a |-> ms3a]
        ELSE IF hasExtraHeaders(ms3a) /\ (got.err \/ copied.err)
        THEN [err |-> TRUE, out |-> << >>, a |-> ms3a]
        ELSE IF merged.err THEN [err |-> TRUE, out |-> << >>, a |-> after]
        ELSE [err |-> FALSE, out |-> << merged.rec >>, a |-> after]


(***************************************************************************)
(* The generator readMSeed3Records with matchsid and merge (mseed3.py).    *)
(***************************************************************************)
\* the record decompressedRecord builds from the decompressed data d: the
\* array decompress gives is int32 for the Steim encodings and for a record
\* without samples
decompressedFrom(rec, d) ==
    LET dtype == IF rec.data.kind = "ndarray" THEN rec.data.dtype
                 ELSE IF rec.header.numSamples = 0 THEN INTEGER
                 ELSE IF rec.header.encoding \in {STEIM1, STEIM2} THEN INTEGER
                 ELSE rec.header.encoding
    IN  IF d.err THEN RecordFailed
        ELSE MSeed3Record([clone(rec.header) EXCEPT !.encoding = dtype], rec.identifier,
                          [kind |-> "ndarray", dtype |-> dtype, val |-> d.samples], rec.eh)

\* MSeed3Record.decompressedRecord: [err, rec]
decompressedRecord(rec) == decompressedFrom(rec, RecordDecompress(rec))

\* matchPat.search(identifier) is not None, for a compiled pattern of plain
\* characters: the pattern occurs somewhere in the identifier
search(matchPat, identifier) ==
    \E k \in 0..(Len(identifier) - Len(matchPat.pattern)) :
        SubSeq(identifier, k + 1, k + Len(matchPat.pattern)) = matchPat.pattern

\* a skip that passes over the payload only
seekPastData(pos, ms3header) == pos + ms3header.dataLength

\* fileptr.seek(extraHeadersLength, 1); fileptr.seek(dataLength, 1)
seekPastRecord(pos, ms3header) == (pos + ms3header.extraHeadersLength) + ms3header.dataLength

\* what becomes of the list mseed3merge returned: two records, the first is
\* yielded and the second kept; one record, it is kept: [err, prev, yield]
foldList(lookBehind, mlist) ==
    IF mlist.err THEN [err |-> TRUE, prev |-> lookBehind, yield |-> << >>]
    ELSE IF Len(mlist.out) = 2
    THEN [err |-> FALSE, prev |-> mlist.out[2], yield |-> << mlist.out[1] >>]
    ELSE [err |-> FALSE, prev |-> mlist.out[1], yield |-> << >>]

\* a fold that keeps the record just read and forgets the look-behind
foldForgetful(lookBehind, d) ==
    IF d.err THEN [err |-> TRUE, prev |-> lookBehind, yield |-> << >>]
    ELSE [err |-> FALSE, prev |-> d.rec, yield |-> << >>]

\* the decompressed record d merged into the look-behind
foldDecompressed(lookBehind, d) ==
    IF d.err THEN [err |-> TRUE, prev |-> lookBehind, yield |-> << >>]
    ELSE foldList(lookBehind, mseed3merge(lookBehind, d.rec))

\* the merge branch of the loop: the record is decompressed and merged into the
\* look-behind: [err, prev, yield], yield the records yielded (none or one)
fold(lookBehind, ms3) == foldDecompressed(lookBehind, decompressedRecord(ms3))

\* a pass of the while loop of readMSeed3Records, from the read of the fixed
\* header to the record built or skipped: [eof, err, why, matched, rec, pos], pos
\* the position of the file after the pass
ReadPass(fileBytes, pos, check_crc, matchPat) ==
    LET headBytes == Slice(fileBytes, pos, pos + FIXED_HEADER_SIZE)
        fixed == unpackMSeed3FixedHeader(headBytes)
        ms3header == fixed.header
        crc0 == crc32c(PutCrc(headBytes, << 0, 0 >>), << 0, 0 >>)
        pos1 == pos + Len(headBytes)
        identifierBytes == Slice(fileBytes, pos1, pos1 + ms3header.identifierLength)
        crc1 == crc32c(identifierBytes, crc0)
        identifier == utf8Decode(identifierBytes)
        pos2 == pos1 + Len(identifierBytes)
        ehBytes == Slice(fileBytes, pos2, pos2 + ms3header.extraHeadersLength)
        crc2 == crc32c(ehBytes, crc1)
        extraHeadersStr == utf8Decode(ehBytes)
        pos3 == pos2 + Len(ehBytes)
        encodedData == Slice(fileBytes, pos3, pos3 + ms3header.dataLength)
        crc3 == crc32c(encodedData, crc2)
        pos4 == pos3 + Len(encodedData)
        ms3 == MSeed3Record(ms3header, identifier.str,
                            [kind |-> "bytes", dtype |-> 0, val |-> encodedData],
                            [kind |-> "str", val |-> extraHeadersStr.str])
        raised(why, at) == [eof |-> FALSE, err |-> TRUE, why |-> why, matched |-> FALSE,
                            rec |-> NoRecord, pos |-> at]
    IN  IF Len(headBytes) = 0
        THEN [eof |-> TRUE, err |-> FALSE, why |-> "", matched |-> FALSE, rec |-> NoRecord,
              pos |-> pos]
        ELSE IF fixed.err THEN raised("header", pos1)
        ELSE IF identifier.err THEN raised("utf-8", pos2)
        ELSE IF matchPat # None /\ ~search(matchPat, identifier.str)
        THEN [eof |-> FALSE, err |-> FALSE, why |-> "", matched |-> FALSE, rec |-> NoRecord,
              pos |-> seekPastRecord(pos2, ms3header)]
        ELSE IF extraHeadersStr.err THEN raised("utf-8", pos3)
        ELSE IF check_crc /\ ms3header.crc # crc3 THEN raised("crc", pos4)
        ELSE IF ms3.err THEN raised("record", pos4)
        ELSE [eof |-> FALSE, err |-> FALSE, why |-> "", matched |-> TRUE, rec |-> ms3.rec,
              pos |-> pos4]


(***************************************************************************)
(* Source identifiers (fdsnsourceid.py).  An id is the record of its codes *)
(* with the name of its class: FDSNSourceId for a channel, and the         *)
(* abbreviated LocationSourceId, StationSourceId and NetworkSourceId.      *)
(***************************************************************************)
FDSN_PREFIX == << 70, 68, 83, 78, 58 >>
SEP == 95

\* the characters [A-Z\d], and with the dash [A-Z\d-]
UpperOrDigit == (65..90) \cup (48..57)
UpperDigitOrDash == UpperOrDigit \cup {45}

\* pattern.fullmatch(str) of a character class repeated lo to hi times
fullmatch(class, lo, hi, str) ==
    /\ Len(str) >= lo
    /\ Len(str) <= hi
    /\ \A k \in 1..Len(str) : str[k] \in class

NET_VALID(str) == fullmatch(UpperOrDigit, 1, 8, str)
STATION_VALID(str) == fullmatch(UpperDigitOrDash, 1, 8, str)
LOCATION_VALID(str) == fullmatch(UpperDigitOrDash, 0, 8, str)
SOURCE_SUBSOURCE_VALID(str) == fullmatch(UpperOrDigit, 1, Len(str), str)

FDSNSourceId(networkCode, stationCode, locationCode, bandCode, sourceCode, subsourceCode) ==
    [class |-> "FDSNSourceId", networkCode |-> networkCode, stationCode |-> stationCode,
     locationCode |-> locationCode, bandCode |-> bandCode, sourceCode |-> sourceCode,
     subsourceCode |-> subsourceCode]
NetworkSourceId(networkCode) ==
    [class |-> "NetworkSourceId", networkCode |-> networkCode]
StationSourceId(networkCode, stationCode) ==
    [class |-> "StationSourceId", networkCode |-> networkCode, stationCode |-> stationCode]
LocationSourceId(networkCode, stationCode, locationCode) ==
    [class |-> "LocationSourceId", networkCode |-> networkCode, stationCode |-> stationCode,
     locationCode |-> locationCode]

\* NetworkSourceId.validate, StationSourceId.validate and LocationSourceId.validate:
\* the first item of the tuple returned
validateNetwork(id) ==
    /\ Len(id.networkCode) # 0
    /\ Len(id.networkCode) <= 8
    /\ NET_VALID(id.networkCode)
validateStation(id) ==
    /\ validateNetwork(NetworkSourceId(id.networkCode))
    /\ Len(id.stationCode) # 0
    /\ Len(id.stationCode) <= 8
    /\ STATION_VALID(id.stationCode)
validateLocation(id) ==
    /\ validateStation(StationSourceId(id.networkCode, id.stationCode))
    /\ id.locationCode # << 45, 45 >>
    /\ Len(id.locationCode) <= 8
    /\ (Len(id.locationCode) > 0 => LOCATION_VALID(id.locationCode))

\* FDSNSourceId.validate: the first item of the tuple returned
validateChannel(id) ==
    /\ validateLocation(LocationSourceId(id.networkCode, id.stationCode, id.locationCode))
    /\ Len(id.sourceCode) # 0
    /\ SOURCE_SUBSOURCE_VALID(id.sourceCode)
    /\ (Len(id.subsourceCode) > 0 => SOURCE_SUBSOURCE_VALID(id.subsourceCode))

\* validate() of an id of any of the four classes
validate(id) ==
    IF id.class = "NetworkSourceId" THEN validateNetwork(id)
    ELSE IF id.class = "StationSourceId" THEN validateStation(id)
    ELSE IF id.class = "LocationSourceId" THEN validateLocation(id)
    ELSE validateChannel(id)

\* __str__ of an id of any of the four classes
SourceIdStr(id) ==
    FDSN_PREFIX \o id.networkCode
        \o (IF id.class = "NetworkSourceId" THEN << >> ELSE << SEP >> \o id.stationCode)
        \o (IF id.class \in {"NetworkSourceId", "StationSourceId"} THEN << >>
            ELSE << SEP >> \o id.locationCode)
        \o (IF id.class # "FDSNSourceId" THEN << >>
            ELSE << SEP >> \o id.bandCode \o << SEP >> \o id.sourceCode
                     \o << SEP >> \o id.subsourceCode)

\* __eq__ of an id of any of the four classes
SourceIdEq(id, other) == other.class = id.class /\ SourceIdStr(id) = SourceIdStr(other)

\* str.split(sep): the items between the separators
RECURSIVE split(_, _, _)
split(str, sep, item) ==
    IF str = << >> THEN << item >>
    ELSE IF Head(str) = sep THEN << item >> \o split(Tail(str), sep, << >>)
    ELSE split(Tail(str), sep, Append(item, Head(str)))

NoSourceId == NetworkSourceId(<< >>)

\* FDSNSourceId.parse: [err, id]
parse(sid) ==
    LET items == split(SubSeq(sid, Len(FDSN_PREFIX) + 1, Len(sid)), SEP, << >>)
    IN  IF Len(sid) < Len(FDSN_PREFIX) \/ SubSeq(sid, 1, Len(FDSN_PREFIX)) # FDSN_PREFIX
        THEN [err |-> TRUE, id |-> NoSourceId]
        ELSE IF Len(items) = 1 THEN [err |-> FALSE, id |-> NetworkSourceId(items[1])]
        ELSE IF Len(items) = 2
        THEN [err |-> FALSE, id |-> StationSourceId(items[1], items[2])]
        ELSE IF Len(items) = 3
        THEN [err |-> FALSE, id |-> LocationSourceId(items[1], items[2], items[3])]
        ELSE IF Len(items) # 6 THEN [err |-> TRUE, id |-> NoSourceId]
        ELSE [err |-> FALSE,
              id |-> FDSNSourceId(items[1], items[2], items[3], items[4], items[5],
                                  items[6])]

\* the characters \w of a channel code
WordChars == (65..90) \cup (97..122) \cup (48..57) \cup {95}

\* FDSNSourceId.fromNslc: [err, id].  re.match of (\w)_(\w+)_(\w*): the source is
\* cut at the last separator of the run of word characters
fromNslc(net, sta, loc, channelCode) ==
    LET runEnd == CHOOSE n \in 2..Len(channelCode) :
                      /\ \A k \in 3..n : channelCode[k] \in WordChars
                      /\ n = Len(channelCode) \/ channelCode[n + 1] \notin WordChars
        cuts == { k \in 4..runEnd : channelCode[k] = SEP }
        cut == CHOOSE k \in cuts : \A j \in cuts : j <= k
    IN  IF Len(channelCode) = 3
        THEN [err |-> FALSE,
              id |-> FDSNSourceId(net, sta, loc, << channelCode[1] >>, << channelCode[2] >>,
                                  << channelCode[3] >>)]
        ELSE IF Len(channelCode) >= 4 /\ channelCode[1] \in WordChars
                    /\ channelCode[2] = SEP /\ cuts # {}
        THEN [err |-> FALSE,
              id |-> FDSNSourceId(net, sta, loc, << channelCode[1] >>,
                                  SubSeq(channelCode, 3, cut - 1),
                                  SubSeq(channelCode, cut + 1, runEnd))]
        ELSE [err |-> TRUE, id |-> NoSourceId]

\* NslcId.__init__
NslcId(net, sta, loc, chan) ==
    [networkCode |-> net, stationCode |-> sta, locationCode |-> loc, channelCode |-> chan]

\* an alternative shortChannelCode that always writes the separators
shortChannelCodeSeparated(id) ==
    id.bandCode \o << SEP >> \o id.sourceCode \o << SEP >> \o id.subsourceCode

\* FDSNSourceId.shortChannelCode
shortChannelCode(id) ==
    IF Len(id.bandCode) = 1 /\ Len(id.sourceCode) = 1 /\ Len(id.subsourceCode) = 1
    THEN id.bandCode \o id.sourceCode \o id.subsourceCode
    ELSE id.bandCode \o << SEP >> \o id.sourceCode \o << SEP >> \o id.subsourceCode

\* FDSNSourceId.asNslc
asNslc(id) == NslcId(id.networkCode, id.stationCode, id.locationCode, shortChannelCode(id))

\* A number given to bandCodeForRate is None or the fraction num / den, den > 0
NoNumber == [kind |-> "none", num |-> 0, den |-> 1]
Fraction(num, den) == [kind |-> "num", num |-> num, den |-> den]

\* x < tn / td for a fraction x > 0, the products kept small
Below(x, tn, td) ==
    IF x.num >= x.den /\ tn <= td THEN FALSE
    ELSE IF x.num < x.den /\ tn >= td THEN TRUE
    ELSE x.num * td < tn * x.den

\* x if x > 0 else -1.0 / x, for x # 0
rateOrPeriod(x) == IF x.num > 0 THEN x ELSE Fraction(x.den, -1 * x.num)

\* respHz is not None and respHz < 0.1
lowCorner(response_lb) ==
    /\ response_lb.kind # "none"
    /\ \/ response_lb.num = 0
       \/ Below(rateOrPeriod(response_lb), 1, 10)

\* the tests of bandCodeForRate on the rate, in their order.  A band code is
\* the str of one letter: J F G C D H E B S M L V U W R P T Q are 74 70 71 67
\* 68 72 69 66 83 77 76 86 85 87 82 80 84 81, and I is 73
bandOfRate(sampRate, broad) ==
    IF ~Below(sampRate, 5000, 1) THEN << 74 >>
    ELSE IF ~Below(sampRate, 1000, 1) THEN (IF broad THEN << 70 >> ELSE << 71 >>)
    ELSE IF ~Below(sampRate, 250, 1) THEN (IF broad THEN << 67 >> ELSE << 68 >>)
    ELSE IF ~Below(sampRate, 80, 1) THEN (IF broad THEN << 72 >> ELSE << 69 >>)
    ELSE IF ~Below(sampRate, 10, 1) THEN (IF broad THEN << 66 >> ELSE << 83 >>)
    ELSE IF Below(Fraction(1, 1), sampRate.num, sampRate.den) THEN << 77 >>
    ELSE IF Below(Fraction(1, 2), sampRate.num, sampRate.den) /\ Below(sampRate, 3, 2)
    THEN << 76 >>
    ELSE IF ~Below(sampRate, 1, 10) /\ Below(sampRate, 1, 1) THEN << 86 >>
    ELSE IF ~Below(sampRate, 1, 100) THEN << 85 >>
    ELSE IF ~Below(sampRate, 1, 1000) THEN << 87 >>
    ELSE IF ~Below(sampRate, 1, 10000) THEN << 82 >>
    ELSE IF ~Below(sampRate, 1, 100000) THEN << 80 >>
    ELSE IF ~Below(sampRate, 1, 1000000) THEN << 84 >>
    ELSE << 81 >>

\* bandCodeForRate: [err, band]
bandCodeForRate(sampRatePeriod, response_lb) ==
    IF sampRatePeriod.kind = "none" \/ sampRatePeriod.num = 0
    THEN [err |-> FALSE, band |-> << 73 >>]
    ELSE [err |-> FALSE,
          band |-> bandOfRate(rateOrPeriod(sampRatePeriod), lowCorner(response_lb))]

(***************************************************************************)
(* The miniSEED-2 record (miniseed.py).  A str is the sequence of its code *)
(* points; a datetime is [year, sec, us] as above and a BTime is [year,    *)
(* yday, hour, minute, second, tenthMilli]; a sample rate is a whole       *)
(* number of hertz.  A header is the record of the attributes of           *)
(* MiniseedHeader; an operation that can raise returns the field err.      *)
(***************************************************************************)
MICRO == 1000000
ENC_SHORT == 1
ENC_INT == 3
HEADER_SIZE == 48
B1000_SIZE == 8
\* seedcodec's byte orders, the values blockette 1000 carries
BIG_ENDIAN == 1
LITTLE_ENDIAN == 0
\* sys.byteorder of the machine
sys_byteorder == "little"

\* the days of a year of the calendar of datetime
DaysInYear(year) ==
    IF (year % 4 = 0 /\ year % 100 # 0) \/ year % 400 = 0 THEN 366 ELSE 365

\* a datetime whose seconds ran past the end of its year, carried into the years after
RECURSIVE CarryYears(_)
CarryYears(t) ==
    IF t.sec >= DaysInYear(t.year) * 86400
    THEN CarryYears([year |-> t.year + 1, sec |-> t.sec - DaysInYear(t.year) * 86400,
                     us |-> t.us])
    ELSE t

\* datetime + timedelta(microseconds=d), d >= 0
datetimePlus(t, d) == CarryYears(PlusMicros(t, d))

BTime(year, yday, hour, minute, second, tenthMilli) ==
    [year |-> year, yday |-> yday, hour |-> hour, minute |-> minute, second |-> second,
     tenthMilli |-> tenthMilli]

\* datetime.timetuple() with int(microsecond / 100), as a BTime
BTimeOf(t) ==
    BTime(t.year, (t.sec \div 86400) + 1, (t.sec % 86400) \div 3600, (t.sec % 3600) \div 60,
          t.sec % 60, t.us \div 100)

\* what datetime(year, 1, 1, hour=, minute=, second=, microsecond=) accepts
DatetimeAccepts(b) ==
    /\ b.year >= 1 /\ b.year <= 9999
    /\ b.hour <= 23 /\ b.minute <= 59 /\ b.second <= 59
    /\ 100 * b.tenthMilli <= 999999

\* MiniseedHeader.setStartTime: [err, header].  A BTime argument has the field
\* tenthMilli, a datetime argument the field us
setStartTime(header, starttimeArg) ==
    IF "tenthMilli" \in DOMAIN starttimeArg
    THEN IF ~DatetimeAccepts(starttimeArg) THEN [err |-> TRUE, header |-> header]
         ELSE [err |-> FALSE,
               header |->
                   [header EXCEPT
                       !.btime = starttimeArg,
                       !.starttime =
                           CarryYears([year |-> starttimeArg.year,
                                       sec |-> starttimeArg.hour * 3600
                                                   + starttimeArg.minute * 60
                                                   + starttimeArg.second
                                                   + (starttimeArg.yday - 1) * 86400,
                                       us |-> 100 * starttimeArg.tenthMilli])]]
    ELSE [err |-> FALSE,
          header |-> [header EXCEPT !.starttime = starttimeArg,
                                    !.btime = BTimeOf(starttimeArg)]]

\* the keyword arguments of MiniseedHeader.__init__ at their defaults
HeaderDefaults ==
    [encoding |-> -1, byteorder |-> BIG_ENDIAN, sampRateFactor |-> 0, sampRateMult |-> 0,
     actFlag |-> 0, ioFlag |-> 0, qualFlag |-> 0, numBlockettes |-> 0, timeCorr |-> 0,
     dataOffset |-> 0, blocketteOffset |-> 0, sequence_number |-> << >>,
     dataquality |-> << 68 >>]

\* the sample rate a factor and a multiplier stand for: [err, rate], err where
\* the rate is no whole number of hertz or the division raises
RateOf(sampRateFactor, sampRateMult) ==
    IF sampRateFactor > 0 /\ sampRateMult > 0
    THEN [err |-> FALSE, rate |-> sampRateFactor * sampRateMult]
    ELSE IF sampRateFactor > 0 /\ sampRateMult < 0
                /\ sampRateFactor % (-1 * sampRateMult) = 0
    THEN [err |-> FALSE, rate |-> sampRateFactor \div (-1 * sampRateMult)]
    ELSE [err |-> TRUE, rate |-> 0]

NoHeader2 ==
    [network |-> << >>, station |-> << >>, location |-> << >>, channel |-> << >>,
     starttime |-> NoTime, btime |-> BTime(1, 1, 0, 0, 0, 0), sampleRate |-> 0,
     numSamples |-> 0, encoding |-> -1, byteorder |-> BIG_ENDIAN, endianChar |-> ">",
     sampRateFactor |-> 0, sampRateMult |-> 0, actFlag |-> 0, ioFlag |-> 0, qualFlag |-> 0,
     numBlockettes |-> 0, timeCorr |-> 0, dataOffset |-> 0, blocketteOffset |-> 0,
     sequence_number |-> << >>, dataquality |-> << 68 >>,
     recordLengthExp |-> 9, recordLength |-> 512]

\* MiniseedHeader.__init__: [err, header]
MiniseedHeader(network, station, location, channel, starttimeArg, numSamples, sampleRate, kw) ==
    LET timed == setStartTime(NoHeader2, starttimeArg)
        calc == IF sampleRate = 0 /\ ~(kw.sampRateFactor = 0 /\ kw.sampRateMult = 0)
                THEN RateOf(kw.sampRateFactor, kw.sampRateMult)
                ELSE [err |-> FALSE, rate |-> sampleRate]
    IN  IF timed.err \/ calc.err \/ calc.rate = 0
        THEN [err |-> TRUE, header |-> NoHeader2]
        ELSE [err |-> FALSE,
              header |->
                  [timed.header EXCEPT
                      !.sequence_number = kw.sequence_number,
                      !.network = network, !.station = station, !.location = location,
                      !.channel = channel, !.dataquality = kw.dataquality,
                      !.sampleRate = calc.rate, !.numSamples = numSamples,
                      !.encoding = kw.encoding, !.byteorder = kw.byteorder,
                      !.endianChar = IF kw.byteorder = 1 THEN ">" ELSE "<",
                      !.sampRateFactor = kw.sampRateFactor,
                      !.sampRateMult = kw.sampRateMult,
                      !.actFlag = kw.actFlag, !.ioFlag = kw.ioFlag,
                      !.qualFlag = kw.qualFlag, !.numBlockettes = kw.numBlockettes,
                      !.timeCorr = kw.timeCorr, !.dataOffset = kw.dataOffset,
                      !.blocketteOffset = kw.blocketteOffset,
                      !.recordLengthExp = 9, !.recordLength = 512]]

\* struct "H", "h" and "i" in the byte order of endianChar
PackH(endianChar, v) == IF endianChar = ">" THEN Reverse(U16LE(v)) ELSE U16LE(v)
Packh(endianChar, v) == PackH(endianChar, (v + 65536) % 65536)
Packi(endianChar, v) == IF endianChar = ">" THEN Reverse(U32LE(v)) ELSE U32LE(v)
UnpackH(endianChar, b, offset) ==
    IF endianChar = ">" THEN 256 * At(b, offset) + At(b, offset + 1) ELSE FromU16LE(b, offset)
Unpackh(endianChar, b, offset) ==
    LET u == UnpackH(endianChar, b, offset) IN IF u >= 32768 THEN u - 65536 ELSE u
Unpacki(endianChar, b, offset) ==
    IF endianChar = ">" THEN FromU32LE(Reverse(SubSeq(b, offset + 1, offset + 4)), 0)
    ELSE FromU32LE(b, offset)

\* n zero bytes: bytearray(n)
Zeros(n) == [k \in 1..n |-> 0]

\* str.ljust(n)
ljust(str, n) == IF Len(str) >= n THEN str ELSE str \o [k \in 1..(n - Len(str)) |-> 32]

\* struct "ns": the first n bytes, filled up with zero bytes
PackS(b, n) == IF Len(b) >= n THEN SubSeq(b, 1, n) ELSE b \o Zeros(n - Len(b))

\* buf[lo:hi] = b of a bytearray
SliceAssign(buf, lo, hi, b) ==
    LET from == IF lo < Len(buf) THEN lo ELSE Len(buf)
        to == IF hi < from THEN from ELSE IF hi < Len(buf) THEN hi ELSE Len(buf)
    IN  SubSeq(buf, 1, from) \o b \o SubSeq(buf, to + 1, Len(buf))

\* struct.pack_into(format, buf, offset, ...) of the bytes b: [err, buf], err
\* where the buffer is too short
PackInto(buf, offset, b) ==
    IF offset + Len(b) > Len(buf) THEN [err |-> TRUE, buf |-> buf]
    ELSE [err |-> FALSE, buf |-> SliceAssign(buf, offset, offset + Len(b), b)]

\* MiniseedHeader.calcSeedMultipilerFactor for a whole rate: << factor, divisor >>
calcSeedMultipilerFactor(header) ==
    IF header.sampleRate = 0 THEN << 0, 0 >>
    ELSE << header.sampleRate * (32766 \div header.sampleRate),
            -1 * (32766 \div header.sampleRate) >>

\* MiniseedHeader.packBTime: the ten bytes at offset 20
packBTime(header, time) ==
    LET tt == BTimeOf(time)
    IN  PackH(header.endianChar, tt.year) \o PackH(header.endianChar, tt.yday)
            \o U8(tt.hour) \o U8(tt.minute) \o U8(tt.second) \o << 0 >>
            \o PackH(header.endianChar, time.us \div 100)

\* what struct accepts of the header: H and h fields in range
HeaderPackable2(header, factor, mult) ==
    /\ header.starttime.year <= 65535
    /\ header.numSamples >= 0 /\ header.numSamples <= 65535
    /\ factor >= -32768 /\ factor <= 32767
    /\ mult >= -32768 /\ mult <= 32767

\* MiniseedHeader.pack: [err, bytes], the 48 bytes of the fixed header
HeaderPack2(header) ==
    LET net == utf8Encode(ljust(header.network, 2))
        sta == utf8Encode(ljust(header.station, 5))
        loc == utf8Encode(ljust(header.location, 2))
        chan == utf8Encode(ljust(header.channel, 3))
        calc == IF header.sampleRate # 0 /\ header.sampRateFactor = 0
                       /\ header.sampRateMult = 0
                THEN calcSeedMultipilerFactor(header)
                ELSE << header.sampRateFactor, header.sampRateMult >>
    IN  IF ~HeaderPackable2(header, calc[1], calc[2]) THEN [err |-> TRUE, bytes |-> << >>]
        ELSE [err |-> FALSE,
              bytes |-> << 32, 32, 32, 32, 32, 32, 68, 32 >> \o PackS(sta, 5) \o PackS(loc, 2)
                            \o PackS(chan, 3) \o PackS(net, 2)
                            \o packBTime(header, header.starttime)
                            \o PackH(header.endianChar, header.numSamples)
                            \o Packh(header.endianChar, calc[1])
                            \o Packh(header.endianChar, calc[2])
                            \o Zeros(12)]

\* the blockettes: named tuples, told apart by their type name
Blockette1000(blocketteNum, nextOffset, encoding, byteorder, recLength) ==
    [type |-> "Blockette1000", blocketteNum |-> blocketteNum, nextOffset |-> nextOffset,
     encoding |-> encoding, byteorder |-> byteorder, recLength |-> recLength]
Blockette100(blocketteNum, nextOffset, sampleRate) ==
    [type |-> "Blockette100", blocketteNum |-> blocketteNum, nextOffset |-> nextOffset,
     sampleRate |-> sampleRate]
Blockette1001(blocketteNum, nextOffset, timeQuality, microseconds, frameCount) ==
    [type |-> "Blockette1001", blocketteNum |-> blocketteNum, nextOffset |-> nextOffset,
     timeQuality |-> timeQuality, microseconds |-> microseconds, frameCount |-> frameCount]
BlocketteUnknown(blocketteNum, nextOffset, rawBytes) ==
    [type |-> "BlocketteUnknown", blocketteNum |-> blocketteNum, nextOffset |-> nextOffset,
     rawBytes |-> rawBytes]

\* the data of a MiniseedRecord: _data is [kind, dtype, order, val] with kind
\* "none", "bytes" or "ndarray", order the dtype.byteorder of an array ("<", ">"
\* or "=" for the machine's own); encodedData is [kind, val] with kind "none"
\* or "bytes"
NoData2 == [kind |-> "none", dtype |-> 0, order |-> "=", val |-> << >>]
NoEncoded == [kind |-> "none", val |-> << >>]
NoRecord2 == [header |-> NoHeader2, blockettes |-> << >>, data |-> NoData2,
              encodedData |-> NoEncoded]

\* MiniseedRecord.__init__ with _internal_set_data: [err, rec].  The data given
\* is none, an EncodedDataSegment ("segment", with littleEndian), bytes, an
\* array ("ndarray") or a list of numbers ("list")
MiniseedRecord(header, dataArg, encodedData, blockettes) ==
    LET native == IF sys_byteorder = "little" THEN LITTLE_ENDIAN ELSE BIG_ENDIAN
        listEncoding == IF header.encoding = -1 THEN 4 ELSE header.encoding
        encoding == IF dataArg.kind = "segment" THEN dataArg.dtype
                    ELSE IF dataArg.kind = "bytes" THEN header.encoding
                    ELSE IF dataArg.kind = "list" THEN listEncoding
                    ELSE dataArg.dtype
        numSamples == IF dataArg.kind = "segment" THEN dataArg.numSamples
                      ELSE IF dataArg.kind = "bytes" THEN header.numSamples
                      ELSE Len(dataArg.val)
        byteorder == IF dataArg.kind = "segment"
                     THEN (IF dataArg.littleEndian THEN LITTLE_ENDIAN ELSE BIG_ENDIAN)
                     ELSE IF dataArg.kind = "bytes" THEN header.byteorder
                     ELSE IF dataArg.kind = "ndarray" /\ dataArg.order = "<"
                     THEN LITTLE_ENDIAN
                     ELSE IF dataArg.kind = "ndarray" /\ dataArg.order = ">" THEN BIG_ENDIAN
                     ELSE native
        kept == IF dataArg.kind \in {"segment", "bytes"}
                THEN [kind |-> "bytes", dtype |-> 0, order |-> "=", val |-> dataArg.val]
                ELSE [kind |-> "ndarray", dtype |-> encoding,
                      order |-> IF dataArg.kind = "list" THEN "=" ELSE dataArg.order,
                      val |-> dataArg.val]
        h0 == [header EXCEPT !.byteorder = byteorder]
        h1 == IF h0.encoding = -1 THEN [h0 EXCEPT !.encoding = encoding] ELSE h0
        h2 == IF h1.numSamples = 0 THEN [h1 EXCEPT !.numSamples = numSamples] ELSE h1
    IN  IF dataArg.kind = "none"
        THEN [err |-> FALSE,
              rec |-> [header |-> header, blockettes |-> blockettes, data |-> NoData2,
                       encodedData |-> encodedData]]
        ELSE IF h2.encoding # encoding \/ h2.numSamples # numSamples
        THEN [err |-> TRUE, rec |-> NoRecord2]
        ELSE [err |-> FALSE,
              rec |-> [header |-> h2, blockettes |-> blockettes, data |-> kept,
                       encodedData |-> encodedData]]

\* MiniseedRecord.createB1000
createB1000(rec) ==
    Blockette1000(1000, 0, rec.header.encoding, rec.header.byteorder,
                  rec.header.recordLengthExp)

\* what struct "B" accepts
IsByte(v) == v >= 0 /\ v <= 255

\* the bytes struct.pack_into writes of a blockette: [err, bytes], err where a
\* field is no byte
blocketteBytes(rec, b) ==
    LET e == rec.header.endianChar
    IN  [err |-> IF b.type = "Blockette1000"
                 THEN ~(IsByte(rec.header.encoding) /\ IsByte(rec.header.byteorder))
                 ELSE IF b.type = "Blockette1001"
                 THEN ~(IsByte(b.timeQuality) /\ IsByte(b.microseconds)
                            /\ IsByte(b.frameCount))
                 ELSE FALSE,
         bytes |-> PackH(e, b.blocketteNum) \o PackH(e, b.nextOffset)
                       \o (IF b.type = "Blockette100"
                           THEN Packi(e, b.sampleRate) \o Zeros(4)
                           ELSE IF b.type = "Blockette1000"
                           THEN U8(rec.header.encoding) \o U8(rec.header.byteorder)
                                    \o U8(rec.header.recordLengthExp) \o << 0 >>
                           ELSE IF b.type = "Blockette1001"
                           THEN U8(b.timeQuality) \o U8(b.microseconds) \o << 0 >>
                                    \o U8(b.frameCount)
                           ELSE << >>)]

\* the blockette written: [err, buf, offset], given what pack_into did
blocketteWritten(recordBytes, offset, b, fits, put) ==
    IF fits.err \/ put.err THEN [err |-> TRUE, buf |-> recordBytes, offset |-> offset]
    ELSE IF b.type = "BlocketteUnknown"
    THEN [err |-> FALSE,
          buf |-> SliceAssign(put.buf, offset + 4, offset + Len(b.rawBytes),
                              SubSeq(b.rawBytes, 5, Len(b.rawBytes))),
          offset |-> offset + Len(b.rawBytes)]
    ELSE [err |-> FALSE, buf |-> put.buf, offset |-> offset + 8]

\* MiniseedRecord.packBlockette with packB100, packB1000, packB1001 and
\* packBlocketteUnknown: [err, buf, offset], the record bytes with the blockette
\* written at the offset and the offset after it
packBlockette(rec, recordBytes, offset, b) ==
    blocketteWritten(recordBytes, offset, b, blocketteBytes(rec, b),
                     PackInto(recordBytes, offset, blocketteBytes(rec, b).bytes))

\* the loop of pack over the blockettes from the k-th on: [err, buf, offset]
RECURSIVE packBlockettes(_, _, _, _)
packBlockettes(rec, packed, blockettes, k) ==
    IF packed.err \/ k > Len(blockettes) THEN packed
    ELSE packBlockettes(rec, packBlockette(rec, packed.buf, packed.offset, blockettes[k]),
                        blockettes, k + 1)

\* the end of packData, given the bytes the encoder made
putData(recordBytes, offset, dataBytes) ==
    IF Len(recordBytes) < offset + Len(dataBytes) THEN [err |-> TRUE, buf |-> recordBytes]
    ELSE [err |-> FALSE,
          buf |-> SliceAssign(recordBytes, offset, offset + Len(dataBytes), dataBytes)]

\* MiniseedRecord.packData: [err, buf].  The encoder takes the arrays of the model
packData(rec, recordBytes, offset, dataArg) ==
    IF dataArg.kind # "ndarray" THEN [err |-> TRUE, buf |-> recordBytes]
    ELSE putData(recordBytes, offset,
                 encode(dataArg.val, rec.header.encoding,
                        rec.header.byteorder = LITTLE_ENDIAN).dataBytes)

\* the bytes of the record with the data offset put at 44
withDataOffset(rec, packed) ==
    [k \in 1..Len(packed.buf) |->
        IF k \in {45, 46} THEN PackH(rec.header.endianChar, packed.offset)[k - 44]
        ELSE packed.buf[k]]

\* the end of pack: the data offset at 44 and the payload, given the blockettes packed
packPayload(rec, packed) ==
    IF packed.err THEN [err |-> TRUE, buf |-> packed.buf]
    ELSE IF rec.encodedData.kind # "none" /\ rec.data.kind = "none"
    THEN [err |-> FALSE,
          buf |-> SliceAssign(withDataOffset(rec, packed), packed.offset,
                              packed.offset + Len(rec.encodedData.val),
                              rec.encodedData.val)]
    ELSE packData(rec, withDataOffset(rec, packed), packed.offset, rec.data)

\* the blockettes of a record with a blockette 1000 put first where it has none
withB1000(rec) ==
    IF \E k \in 1..Len(rec.blockettes) : rec.blockettes[k].blocketteNum = 1000
    THEN rec.blockettes
    ELSE << createB1000(rec) >> \o rec.blockettes

\* the start of pack: the zero bytes of the record with the header, the offset
\* of the first blockette at 46 and the number of blockettes at 39
packStart(left, headerBytes) ==
    [k \in 1..left.header.recordLength |->
        IF k <= 48 /\ k <= Len(headerBytes) /\ k \notin {40, 47, 48} THEN headerBytes[k]
        ELSE IF k = 40 THEN Len(left.blockettes) % 256
        ELSE IF k \in {47, 48} THEN PackH(left.header.endianChar, 48)[k - 46]
        ELSE 0]

\* what pack returns, given the bytes it filled
packReturn(left, done) ==
    IF done.err \/ Len(left.blockettes) > 255
    THEN [err |-> TRUE, rec |-> left, recordBytes |-> << >>]
    ELSE [err |-> FALSE, rec |-> left, recordBytes |-> done.buf]

\* pack after the header is packed; left is the record with its blockette 1000
packAfterHeader(rec, left, headerBytes) ==
    IF headerBytes.err
    THEN [err |-> TRUE, rec |-> rec, recordBytes |-> << >>]
    ELSE packReturn(left,
                    packPayload(left,
                                packBlockettes(left,
                                               [err |-> FALSE,
                                                buf |-> packStart(left, headerBytes.bytes),
                                                offset |-> 48],
                                               left.blockettes, 1)))

\* MiniseedRecord.pack: [err, rec, recordBytes], rec the record as pack leaves it
\* (a blockette 1000 inserted where there was none)
RecordPack2(rec) ==
    packAfterHeader(rec, [rec EXCEPT !.blockettes = withB1000(rec)], HeaderPack2(rec.header))

\* str.strip(): the white space at both ends removed
Whitespace == {9, 10, 11, 12, 13, 28, 29, 30, 31, 32}
RECURSIVE lstrip(_)
lstrip(str) ==
    IF str # << >> /\ Head(str) \in Whitespace THEN lstrip(Tail(str)) ELSE str
strip(str) == Reverse(lstrip(Reverse(lstrip(str))))

\* the end of unpackMiniseedHeader, given the six texts decoded
headerOfTexts(recordBytes, endianChar, seq, qualityChar, sta, loc, chan, net) ==
    IF seq.err \/ qualityChar.err \/ sta.err \/ loc.err \/ chan.err \/ net.err
    THEN [err |-> TRUE, header |-> NoHeader2]
    ELSE MiniseedHeader(
             strip(net.str), strip(sta.str), strip(loc.str), strip(chan.str),
             BTime(UnpackH(endianChar, recordBytes, 20), UnpackH(endianChar, recordBytes, 22),
                   At(recordBytes, 24), At(recordBytes, 25), At(recordBytes, 26),
                   UnpackH(endianChar, recordBytes, 28)),
             UnpackH(endianChar, recordBytes, 30), 0,
             [encoding |-> -1,
              byteorder |-> IF endianChar = ">" THEN BIG_ENDIAN ELSE LITTLE_ENDIAN,
              sampRateFactor |-> UnpackH(endianChar, recordBytes, 32),
              sampRateMult |-> UnpackH(endianChar, recordBytes, 34),
              actFlag |-> At(recordBytes, 36), ioFlag |-> At(recordBytes, 37),
              qualFlag |-> At(recordBytes, 38), numBlockettes |-> At(recordBytes, 39),
              timeCorr |-> Unpacki(endianChar, recordBytes, 40),
              dataOffset |-> UnpackH(endianChar, recordBytes, 44),
              blocketteOffset |-> UnpackH(endianChar, recordBytes, 46),
              sequence_number |-> strip(seq.str),
              dataquality |-> strip(qualityChar.str)])

\* unpackMiniseedHeader: [err, header]
unpackMiniseedHeader(recordBytes, endianChar) ==
    IF Len(recordBytes) < 48 THEN [err |-> TRUE, header |-> NoHeader2]
    ELSE headerOfTexts(recordBytes, endianChar,
                       utf8Decode(SubSeq(recordBytes, 1, 6)),
                       utf8Decode(SubSeq(recordBytes, 7, 7)),
                       utf8Decode(SubSeq(recordBytes, 9, 13)),
                       utf8Decode(SubSeq(recordBytes, 14, 15)),
                       utf8Decode(SubSeq(recordBytes, 16, 18)),
                       utf8Decode(SubSeq(recordBytes, 19, 20)))

\* unpackBlockette with unpackBlockette100, unpackBlockette1000 and
\* unpackBlockette1001: [err, b], err where struct finds too few bytes
unpackBlockette(recordBytes, offset, endianChar, dataOffset) ==
    LET blocketteNum == UnpackH(endianChar, recordBytes, offset)
        nextOffset == UnpackH(endianChar, recordBytes, offset + 2)
        endOffset == IF nextOffset = 0 THEN dataOffset ELSE nextOffset
        short(n) == Len(recordBytes) < offset + n
        failed == [err |-> TRUE, b |-> BlocketteUnknown(0, 0, << >>)]
    IN  IF short(4) THEN failed
        ELSE IF blocketteNum = 1000
        THEN IF short(8) THEN failed
             ELSE [err |-> FALSE,
                   b |-> Blockette1000(blocketteNum, nextOffset, At(recordBytes, offset + 4),
                                       At(recordBytes, offset + 5),
                                       At(recordBytes, offset + 6))]
        ELSE IF blocketteNum = 100
        THEN IF short(12) THEN failed
             ELSE [err |-> FALSE,
                   b |-> Blockette100(blocketteNum, nextOffset,
                                      Unpacki(endianChar, recordBytes, offset + 4))]
        ELSE IF blocketteNum = 1001
        THEN IF short(8) THEN failed
             ELSE [err |-> FALSE,
                   b |-> Blockette1001(blocketteNum, nextOffset, At(recordBytes, offset + 4),
                                       At(recordBytes, offset + 5),
                                       At(recordBytes, offset + 7))]
        ELSE [err |-> FALSE,
              b |-> BlocketteUnknown(blocketteNum, nextOffset,
                                     Slice(recordBytes, offset, endOffset))]

\* the byte order unpackFixedHeaderGuessByteOrder reads off the bytes of the
\* year, "?" where it raises
guessEndianChar(recordBytes) ==
    LET b20 == At(recordBytes, 20)
        b21 == At(recordBytes, 21)
    IN  IF Len(recordBytes) < 22 THEN "?"
        ELSE IF b20 = 7 \/ (b20 = 8 /\ ~(b21 = 7 \/ b21 = 8)) THEN ">"
        ELSE IF (b21 = 7 \/ b21 = 8) /\ ~(b20 = 7 \/ b20 = 8) THEN "<"
        ELSE "?"

\* the header with the byte order guessed
withByteorder(unpacked2, endianChar) ==
    [err |-> unpacked2.err,
     header |-> [unpacked2.header EXCEPT
                    !.byteorder = IF endianChar = ">" THEN BIG_ENDIAN ELSE LITTLE_ENDIAN]]

\* unpackFixedHeaderGuessByteOrder: [err, header]
unpackFixedHeaderGuessByteOrder(recordBytes) ==
    IF guessEndianChar(recordBytes) = "?" THEN [err |-> TRUE, header |-> NoHeader2]
    ELSE withByteorder(unpackMiniseedHeader(recordBytes, guessEndianChar(recordBytes)),
                       guessEndianChar(recordBytes))

\* what one blockette read from the chain does to the header: [err, header]
applyBlockette(header, b) ==
    IF b.type = "Blockette1000"
    THEN [err |-> FALSE,
          header |-> [header EXCEPT !.encoding = b.encoding, !.byteorder = b.byteorder]]
    ELSE IF b.type = "Blockette100"
    THEN [err |-> b.sampleRate = 0, header |-> [header EXCEPT !.sampleRate = b.sampleRate]]
    ELSE IF b.type = "Blockette1001"
    THEN setStartTime(header, datetimePlus(header.starttime, b.microseconds))
    ELSE [err |-> FALSE, header |-> header]

\* the while loop of unpackMiniseedRecord over the chain of blockettes, from
\* the offset nextBOffset on: [err, header, blockettes].  A chain that never
\* ends (the loop does not return) counts as err
RECURSIVE unpackChain(_, _, _, _, _)
RECURSIVE chainAfter(_, _, _, _, _, _)
chainAfter(recordBytes, endianChar, header, blockettes, read, applied) ==
    IF read.err \/ applied.err
    THEN [err |-> TRUE, header |-> header, blockettes |-> blockettes]
    ELSE unpackChain(recordBytes, endianChar, applied.header, Append(blockettes, read.b),
                     read.b.nextOffset)

chainRead(recordBytes, endianChar, header, blockettes, read) ==
    chainAfter(recordBytes, endianChar, header, blockettes, read,
               IF read.err THEN [err |-> TRUE, header |-> header]
               ELSE applyBlockette(header, read.b))

unpackChain(recordBytes, endianChar, header, blockettes, nextBOffset) ==
    IF nextBOffset <= 0
    THEN [err |-> FALSE, header |-> header, blockettes |-> blockettes]
    ELSE IF Len(blockettes) > Len(recordBytes)
    THEN [err |-> TRUE, header |-> header, blockettes |-> blockettes]
    ELSE chainRead(recordBytes, endianChar, header, blockettes,
                   unpackBlockette(recordBytes, nextBOffset, endianChar, header.dataOffset))

\* decompressEncodedData: [err, samples]
decompressEncodedData(encoding, byteorder, numSamples, recordBytes) ==
    decompress(encoding, recordBytes, numSamples, byteorder = LITTLE_ENDIAN)

\* the end of unpackMiniseedRecord, given the samples of an integer encoding:
\* [err, rec].  The array decompress gives has the byte order of the bytes, and
\* no samples make an int32 array
recordOfData(header, blockettes, encodedData, values) ==
    IF header.encoding \in {ENC_SHORT, ENC_INT} /\ values.err
    THEN [err |-> TRUE, rec |-> NoRecord2]
    ELSE MiniseedRecord(header,
                        IF header.encoding \in {ENC_SHORT, ENC_INT}
                        THEN [kind |-> "ndarray",
                              dtype |-> IF header.numSamples = 0 THEN INTEGER
                                        ELSE header.encoding,
                              order |-> IF header.numSamples = 0
                                             \/ header.byteorder = LITTLE_ENDIAN
                                        THEN "<" ELSE ">",
                              val |-> values.samples]
                        ELSE NoData2,
                        [kind |-> "bytes", val |-> encodedData], blockettes)

\* unpackMiniseedRecord after the chain of blockettes: [err, rec]
unpackData(recordBytes, chain) ==
    IF chain.err THEN [err |-> TRUE, rec |-> NoRecord2]
    ELSE recordOfData(chain.header, chain.blockettes,
                      Slice(recordBytes, chain.header.dataOffset, Len(recordBytes)),
                      IF chain.header.encoding \in {ENC_SHORT, ENC_INT}
                      THEN decompressEncodedData(
                               chain.header.encoding, chain.header.byteorder,
                               chain.header.numSamples,
                               Slice(recordBytes, chain.header.dataOffset, Len(recordBytes)))
                      ELSE DecodeFailed)

\* unpackMiniseedRecord after the fixed header: [err, rec]
unpackAfterHeader(recordBytes, fixed) ==
    IF fixed.err THEN [err |-> TRUE, rec |-> NoRecord2]
    ELSE unpackData(recordBytes,
                    IF fixed.header.numBlockettes > 0
                    THEN unpackChain(recordBytes,
                                     IF fixed.header.byteorder = LITTLE_ENDIAN THEN "<"
                                     ELSE ">",
                                     fixed.header, << >>, fixed.header.blocketteOffset)
                    ELSE [err |-> FALSE, header |-> fixed.header, blockettes |-> << >>])

\* unpackMiniseedRecord: [err, rec]
unpackMiniseedRecord(recordBytes) ==
    unpackAfterHeader(recordBytes, unpackFixedHeaderGuessByteOrder(recordBytes))

\* MiniseedRecord.decompressed after the decompression: [err, rec, samples]
decompressedWith(rec, values) ==
    IF values.err THEN [err |-> TRUE, rec |-> rec, samples |-> << >>]
    ELSE [err |-> FALSE,
          rec |-> [rec EXCEPT !.data = [kind |-> "ndarray", dtype |-> rec.header.encoding,
                                        order |-> "=", val |-> values.samples]],
          samples |-> values.samples]

\* MiniseedRecord.decompressed: [err, rec, samples], rec the record with the
\* samples kept in _data
decompressed(rec) ==
    IF rec.data.kind # "none" THEN [err |-> FALSE, rec |-> rec, samples |-> rec.data.val]
    ELSE IF rec.encodedData.kind = "none"
    THEN [err |-> FALSE, rec |-> rec, samples |-> << >>]
    ELSE decompressedWith(rec,
                          decompressEncodedData(rec.header.encoding, rec.header.byteorder,
                                                rec.header.numSamples, rec.encodedData.val))

\* MiniseedRecord.clone after the pack: [err, rec]
unpackPacked(packed) ==
    IF packed.err THEN [err |-> TRUE, rec |-> NoRecord2]
    ELSE unpackMiniseedRecord(packed.recordBytes)

\* MiniseedRecord.clone: [err, rec]
clone2(rec) == unpackPacked(RecordPack2(rec))

(***************************************************************************)
(* The converter mseed2to3 (mseed2to3.py).                                  *)
(***************************************************************************)
\* the value the converter gives publicationVersion
UNKNOWN_DATA_VERSION == 0

\* str(n) of a whole number n >= 0
RECURSIVE Decimal(_)
Decimal(n) == IF n < 10 THEN << 48 + n >> ELSE Decimal(n \div 10) \o << 48 + (n % 10) >>

\* json.dumps of the extra headers of the converter: {"FDSN": {"DataQuality":
\* ..., "Time": {"Quality": ..., "LeapSecond": 1}}}, each key where it was set;
\* the data quality is a str of letters, quality 0 stands for no Quality key
dumpsExtras(hasDataQuality, dataquality, quality, leapSecond) ==
    LET hasTime == quality # 0 \/ leapSecond
        qualityText == << 34, 68, 97, 116, 97, 81, 117, 97, 108, 105, 116, 121, 34, 58, 32,
                          34 >> \o dataquality \o << 34 >>
        timeText == << 34, 84, 105, 109, 101, 34, 58, 32, 123 >>
                        \o (IF quality # 0
                            THEN << 34, 81, 117, 97, 108, 105, 116, 121, 34, 58, 32 >>
                                     \o Decimal(quality)
                            ELSE << >>)
                        \o (IF quality # 0 /\ leapSecond THEN << 44, 32 >> ELSE << >>)
                        \o (IF leapSecond
                            THEN << 34, 76, 101, 97, 112, 83, 101, 99, 111, 110, 100, 34, 58,
                                    32, 49 >>
                            ELSE << >>)
                        \o << 125 >>
    IN  << 123, 34, 70, 68, 83, 78, 34, 58, 32, 123 >>
            \o (IF hasDataQuality THEN qualityText ELSE << >>)
            \o (IF hasDataQuality /\ hasTime THEN << 44, 32 >> ELSE << >>)
            \o (IF hasTime THEN timeText ELSE << >>)
            \o << 125, 125 >>

\* the last blockette of the list with the number num that passes the test, or
\* None: what a loop assigning from each such blockette in turn leaves
RECURSIVE lastBlockette(_, _, _, _)
lastBlockette(blockettes, num, timed, k) ==
    IF k = 0 THEN None
    ELSE IF blockettes[k].blocketteNum = num
                /\ (timed => blockettes[k].timeQuality # 0)
    THEN blockettes[k]
    ELSE lastBlockette(blockettes, num, timed, k - 1)

\* v & mask of a byte v and a mask of one bit
AndMask(v, mask) == ((v \div mask) % 2) * mask

\* the flags the converter gives the miniSEED-3 header
flagsOf(ms2H) ==
    AndMask(ms2H.actFlag, 1) * 2 + AndMask(ms2H.ioFlag, 64) * 4
        + AndMask(ms2H.qualFlag, 16) * 8

\* the borrow of the converter from the fields above a negative nanosecond
borrow(h) ==
    IF h.nanosecond >= 0 THEN h
    ELSE LET h1 == [h EXCEPT !.second = h.second - 1, !.nanosecond = h.nanosecond + 1000000000]
             h2 == [h1 EXCEPT !.second = h1.second + 60, !.minute = h1.minute - 1]
             h3 == [h2 EXCEPT !.minute = h2.minute + 60, !.hour = h2.hour - 1]
             h4 == [h3 EXCEPT !.hour = h3.hour + 24, !.dayOfYear = -1]
             h5 == [h4 EXCEPT !.year = h4.year - 1,
                              !.dayOfYear = h4.dayOfYear
                                  + (IF (h4.year - 1) % 4 # 0 THEN 365 ELSE 366)]
         IN  IF h1.second >= 0 THEN h1
             ELSE IF h2.minute >= 0 THEN h2
             ELSE IF h3.hour >= 0 THEN h3
             ELSE IF h4.dayOfYear >= 0 THEN h4
             ELSE h5

\* the data the converter gives the miniSEED-3 record: the encoded bytes, or
\* what decompressed() returned where the record has none
dataOf(ms2, kept) ==
    IF ms2.encodedData.kind # "none"
    THEN [kind |-> "bytes", dtype |-> 0, val |-> ms2.encodedData.val]
    ELSE IF ms2.data.kind = "none" THEN NoData
    ELSE IF ms2.data.kind = "bytes" THEN [kind |-> "bytes", dtype |-> 0, val |-> kept.samples]
    ELSE [kind |-> "ndarray", dtype |-> ms2.data.dtype, val |-> kept.samples]

\* the header the converter fills, given the blockettes its loops end on (None
\* where there is none) and the extra headers dumped ("" where there are none)
headerOf(ms2, b1000, b100, b1001, extras) ==
    borrow([MSeed3Header EXCEPT
               !.flags = flagsOf(ms2.header),
               !.publicationVersion = UNKNOWN_DATA_VERSION,
               !.year = ms2.header.btime.year, !.dayOfYear = ms2.header.btime.yday,
               !.hour = ms2.header.btime.hour, !.minute = ms2.header.btime.minute,
               !.second = ms2.header.btime.second,
               !.nanosecond = ms2.header.btime.tenthMilli * 100000
                                  + (IF b1001 = None THEN 0 ELSE 1000 * b1001.microseconds),
               !.sampleRatePeriod = F64(IF b100 = None THEN ms2.header.sampleRate
                                        ELSE b100.sampleRate),
               !.numSamples = ms2.header.numSamples,
               !.encoding = b1000.encoding,
               !.dataLength = IF ms2.encodedData.kind # "none"
                              THEN Len(ms2.encodedData.val) ELSE 0,
               !.extraHeadersLength = Len(utf8Encode(extras))])

\* the extra headers of the converter as json.dumps writes them, "" for None
extrasOf(ms2H, b1001) ==
    IF ms2H.dataquality # << 68 >> \/ b1001 # None \/ ms2H.btime.second = 60
    THEN dumpsExtras(ms2H.dataquality # << 68 >>, ms2H.dataquality,
                     IF b1001 = None THEN 0 ELSE b1001.timeQuality,
                     ms2H.btime.second = 60)
    ELSE << >>

\* the end of mseed2to3: [err, rec]
converted3(ms3Header, identifier, dataArg, extras) ==
    IF identifier.err THEN RecordFailed
    ELSE MSeed3Record(ms3Header, SourceIdStr(identifier.id), dataArg,
                      IF extras # << >> THEN [kind |-> "str", val |-> extras]
                      ELSE NoExtraHeaders)

\* mseed2to3 after the loops over the blockettes: [err, rec]
convertWith(ms2, b1000, b100, b1001) ==
    IF b1000 = None THEN RecordFailed
    ELSE converted3(headerOf(ms2, b1000, b100, b1001, extrasOf(ms2.header, b1001)),
                    fromNslc(ms2.header.network, ms2.header.station, ms2.header.location,
                             ms2.header.channel),
                    dataOf(ms2, decompressed(ms2)),
                    extrasOf(ms2.header, b1001))

\* mseed2to3: [err, rec]
mseed2to3(ms2) ==
    convertWith(ms2,
                lastBlockette(ms2.blockettes, 1000, FALSE, Len(ms2.blockettes)),
                lastBlockette(ms2.blockettes, 100, FALSE, Len(ms2.blockettes)),
                lastBlockette(ms2.blockettes, 1001, TRUE, Len(ms2.blockettes)))

(***************************************************************************)
(* The Steim caller: the loop of the tests' test_sized_encode_data         *)
(* (encode what is left under the frame cap, decode the block, drop the    *)
(* samples it took) and, with cut > 0, the carry-over use: encode the      *)
(* first cut samples, then the rest with bias = the last sample before.    *)
(***************************************************************************)
VARIABLES steimVersion, frames, input, cut, data, bias, frameBlock, decodeCount,
          decoded, output, idx, pc,
          record, wire, tamperAt, checkCrc, unpacked, readOut,
          recA, recB, mergeOut,
          stream, fileptr, check_crc_arg, matchsid, merge, prev, yielded,
          recC, leftOut, rightOut,
          msr, packedOut, outmsr, fileRecord, parsed, converted, repacked, cloned,
          sid, sidValid, sidText, sidParsed,
          nslcIn, nslcSid, nslcOut,
          sampRatePeriod, response_lb, band,
          chainBytes, chainHeader, chainBlockettes, chainOffset, chainOut,
          w0Version, w0Bytes, w0Count, w0Decoded,
          writerBlock, writerPattern, writerCalls, writerFull,
          agreeRecords, agreeCrc, agreeRead, agreeParsed

steimVars == << steimVersion, frames, input, cut, data, bias, frameBlock, decodeCount,
                decoded, output, idx >>
\* the record under pack and unpack, its bytes, the offset of the byte changed in
\* them (-1: none), the check_crc asked for, and what the two parsers gave
ms3Vars == << record, wire, tamperAt, checkCrc, unpacked, readOut >>
\* the arguments of mseed3merge as the call leaves them, and the list returned
mergeVars == << recA, recB, mergeOut >>

\* the reader: the records the file was written from, the file (its bytes and
\* the position of the next read), the arguments of readMSeed3Records, the
\* look-behind of the generator and the records it has yielded so far
readerVars == << stream, fileptr, check_crc_arg, matchsid, merge, prev, yielded >>

\* the third record of a stream of three and what merging the three gives,
\* folded from the left and grouped to the right
assocVars == << recC, leftOut, rightOut >>

\* the variables of the other parts of the library
\* the miniSEED-2 record a caller builds (as pack leaves it), what its pack and
\* the parse of the bytes packed gave, a record of a miniSEED-2 file, and what
\* its parse, the conversion of the record parsed and its clone (the pack, and
\* the parse of the bytes packed) gave
ms2Vars == << msr, packedOut, outmsr, fileRecord, parsed, converted, repacked, cloned >>

\* a source id, what validate() says of it, its str() and what parse gives of that
sidVars == << sid, sidValid, sidText, sidParsed >>

\* the variables of miniSEED-2 and of the source ids
\* the arguments of fromNslc, the id it gave and the NslcId asNslc gave of that
nslcVars == << nslcIn, nslcSid, nslcOut >>

\* the arguments of bandCodeForRate and what it gave
bandVars == << sampRatePeriod, response_lb, band >>

\* the variables of the callers of the band codes, of the parts of the
\* miniSEED-2 parser and of the frame block writer
\* unpackMiniseedRecord step by step: its argument, the header it holds, the
\* blockettes it has read, its nextBOffset, and what it returned
chainVars == << chainBytes, chainHeader, chainBlockettes, chainOffset, chainOut >>

\* the arguments of a Steim decoder handed a payload whose W0 was changed, and
\* what it returned
w0Vars == << w0Version, w0Bytes, w0Count, w0Decoded >>

\* the frame block under addEncodedWord, the pattern the arguments of the calls
\* follow, the number of calls made, and what the last call returned
writerVars == << writerBlock, writerPattern, writerCalls, writerFull >>

\* the bytes of the records of a file, the check_crc asked for, what
\* readMSeed3Records gave of the file and what unpackMSeed3Record gave of each
\* record
agreeVars == << agreeRecords, agreeCrc, agreeRead, agreeParsed >>

partVars == << chainVars, w0Vars, writerVars, agreeVars >>

lastVars == << nslcVars, bandVars, partVars >>

newerVars == << ms2Vars, sidVars, lastVars >>

laterVars == << readerVars, assocVars, newerVars >>

vars == << steimVars, pc, ms3Vars, mergeVars, laterVars >>

SampleValues == {0, 10, 130, -9000, 536870911, -536870911}

\* the first n samples of the periodic signal p[1], p[2], p[3], p[1], ...
Periodic(p, n) == [i \in 1..n |-> p[((i - 1) % 3) + 1]]

SteimInputs ==
    {Periodic(p, n) : p \in SampleValues \X SampleValues \X SampleValues,
                      n \in (1..MaxLen) \cup {LongLen}}

NoBlock == SteimFrameBlock(0, 0)
NoResult == [err |-> FALSE, samples |-> << >>]

encodeSteimFrameBlock(version, samples, cap, b) ==
    IF version = 1 THEN encodeSteim1FrameBlock(samples, cap, b, 0)
    ELSE encodeSteim2FrameBlock(samples, cap, b)

decodeSteim(version, dataBytes, numSamples, b) ==
    IF version = 1 THEN decodeSteim1(dataBytes, numSamples, b)
    ELSE decodeSteim2(dataBytes, numSamples, b)

Drop(s, n) == SubSeq(s, n + 1, Len(s))

\* the miniSEED-3 variables where no record is under work
NoBytes == << >>
MS3Idle ==
    /\ record = NoRecord
    /\ wire = NoBytes
    /\ tamperAt = -1
    /\ checkCrc = TRUE
    /\ unpacked = [err |-> FALSE, why |-> "", rec |-> NoRecord]
    /\ readOut = [err |-> FALSE, why |-> "", out |-> << >>]

NoMerge == [err |-> FALSE, out |-> << >>]
MergeIdle ==
    /\ recA = None
    /\ recB = None
    /\ mergeOut = NoMerge

ReaderIdle ==
    /\ stream = << >>
    /\ fileptr = [bytes |-> << >>, pos |-> 0]
    /\ check_crc_arg = TRUE
    /\ matchsid = None
    /\ merge = FALSE
    /\ prev = None
    /\ yielded = << >>

AssocIdle ==
    /\ recC = None
    /\ leftOut = NoMerge
    /\ rightOut = NoMerge

NoResult2 == [err |-> FALSE, rec |-> NoRecord2]
NoPacked2 == [err |-> FALSE, rec |-> NoRecord2, recordBytes |-> << >>]
MS2Idle ==
    /\ msr = NoRecord2
    /\ packedOut = NoPacked2
    /\ outmsr = NoResult2
    /\ fileRecord = << >>
    /\ parsed = NoResult2
    /\ converted = [err |-> FALSE, rec |-> NoRecord]
    /\ repacked = NoPacked2
    /\ cloned = NoResult2

NoParse == [err |-> FALSE, id |-> NoSourceId]
SidIdle ==
    /\ sid = NoSourceId
    /\ sidValid = FALSE
    /\ sidText = << >>
    /\ sidParsed = NoParse

NoNslc == NslcId(<< >>, << >>, << >>, << >>)
NslcIdle ==
    /\ nslcIn = NoNslc
    /\ nslcSid = NoParse
    /\ nslcOut = NoNslc

NoBand == [err |-> FALSE, band |-> << >>]
BandIdle ==
    /\ sampRatePeriod = NoNumber
    /\ response_lb = NoNumber
    /\ band = NoBand

ChainIdle ==
    /\ chainBytes = << >>
    /\ chainHeader = [err |-> FALSE, header |-> NoHeader2]
    /\ chainBlockettes = << >>
    /\ chainOffset = 0
    /\ chainOut = NoResult2

W0Idle ==
    /\ w0Version = 0
    /\ w0Bytes = << >>
    /\ w0Count = 0
    /\ w0Decoded = NoResult

WriterIdle ==
    /\ writerBlock = NoBlock
    /\ writerPattern = [a |-> 0, b |-> 0]
    /\ writerCalls = 0
    /\ writerFull = FALSE

AgreeIdle ==
    /\ agreeRecords = << >>
    /\ agreeCrc = TRUE
    /\ agreeRead = [err |-> FALSE, why |-> "", out |-> << >>]
    /\ agreeParsed = << >>

PartIdle == ChainIdle /\ W0Idle /\ WriterIdle /\ AgreeIdle

LastIdle == NslcIdle /\ BandIdle /\ PartIdle

NewerIdle == MS2Idle /\ SidIdle /\ LastIdle

LaterIdle == ReaderIdle /\ AssocIdle /\ NewerIdle

SteimInit ==
    /\ steimVersion \in {1, 2}
    /\ input \in SteimInputs
    /\ frames \in 0..MaxFrames
    /\ cut \in {k \in 0..MaxCut : k < Len(input)}
    /\ cut > 0 => frames = 0
    /\ data = input
    /\ bias = 0
    /\ frameBlock = NoBlock
    /\ decodeCount = 0
    /\ decoded = NoResult
    /\ output = << >>
    /\ idx = 0
    /\ pc = "encode"
    /\ MS3Idle
    /\ MergeIdle
    /\ LaterIdle

\* what the caller hands to the encoder
EncodeArg == IF cut > 0 /\ idx = 0 THEN SubSeq(data, 1, cut) ELSE data

EncodeBlock ==
    /\ pc = "encode"
    /\ LET r == encodeSteimFrameBlock(steimVersion, EncodeArg, frames, bias)
       IN  /\ frameBlock' = r.fb
           /\ pc' = IF r.err THEN "encodeError" ELSE "decode"
    /\ UNCHANGED << steimVersion, frames, input, cut, data, bias, decodeCount, decoded,
                    output, idx >>
    /\ UNCHANGED << ms3Vars, mergeVars, laterVars >>

DecodeCounts(n) == {k \in (n - 1)..(n + MaxExtra) : k >= 0}

DecodeBlock ==
    /\ pc = "decode"
    /\ \E n \in DecodeCounts(frameBlock.numSamples) :
          /\ decodeCount' = n
          /\ decoded' = decodeSteim(steimVersion, BlockPack(frameBlock), n, bias)
          /\ pc' = IF n = frameBlock.numSamples /\ ~decoded'.err THEN "advance" ELSE "probe"
    /\ UNCHANGED << steimVersion, frames, input, cut, data, bias, frameBlock, output, idx >>
    /\ UNCHANGED << ms3Vars, mergeVars, laterVars >>

Advance ==
    /\ pc = "advance"
    /\ idx' = idx + frameBlock.numSamples
    /\ output' = output \o decoded.samples
    /\ data' = Drop(data, frameBlock.numSamples)
    /\ bias' = IF cut > 0 THEN data[frameBlock.numSamples] ELSE 0
    /\ pc' = IF Len(data') > 0 THEN "encode" ELSE "done"
    /\ UNCHANGED << steimVersion, frames, input, cut, frameBlock, decodeCount, decoded >>
    /\ UNCHANGED << ms3Vars, mergeVars, laterVars >>

SteimNext == EncodeBlock \/ DecodeBlock \/ Advance

Spec == SteimInit /\ [][SteimNext]_vars

(***************************************************************************)
(* A record's way through pack and the two parsers: a record is built,     *)
(* packed, one byte of its payload is changed or not, and the bytes are    *)
(* handed to unpackMSeed3Record or, as a file, to readMSeed3Records.       *)
(***************************************************************************)
\* a header as test_roundtrip_float sets it up, encoding and numSamples left to the data
HeaderOfTest ==
    [MSeed3Header EXCEPT !.nanosecond = 123456000, !.year = 2024, !.dayOfYear = 2,
                         !.hour = 15, !.minute = 13, !.second = 55,
                         !.sampleRatePeriod = F64(-1)]

\* a header with every field at the far end of its range
HeaderAtRangeEnd ==
    [MSeed3Header EXCEPT !.flags = 255, !.nanosecond = 999999999, !.year = 65535,
                         !.dayOfYear = 366, !.hour = 23, !.minute = 59, !.second = 60,
                         !.sampleRatePeriod = F64(100000), !.publicationVersion = 255]

ndarray(dtype, val) == [kind |-> "ndarray", dtype |-> dtype, val |-> val]
bytes(val) == [kind |-> "bytes", dtype |-> 0, val |-> val]

\* the data handed to MSeed3Record with the encoding and numSamples the caller sets
\* in the header for it (-1 and 0: left to the constructor)
MS3Data ==
    { [dataArg |-> ndarray(SHORT, << 1, -2, 32767 >>), encoding |-> -1, numSamples |-> 0],
      [dataArg |-> ndarray(INTEGER, << 70000, -1 >>), encoding |-> -1, numSamples |-> 0],
      [dataArg |-> ndarray(FLOAT, << 1, -49 >>), encoding |-> FLOAT, numSamples |-> 2],
      [dataArg |-> ndarray(DOUBLE, << -300 >>), encoding |-> -1, numSamples |-> 1],
      [dataArg |-> bytes(SamplesLE(INTEGER, << 5, -70000 >>)), encoding |-> INTEGER,
       numSamples |-> 2],
      [dataArg |-> bytes(encodeSteim2(<< 10, 130, -9000 >>, 0, 0).dataBytes),
       encoding |-> STEIM2, numSamples |-> 3],
      [dataArg |-> bytes(encodeSteim1(<< 10, 130 >>, 0, 0, 0).dataBytes),
       encoding |-> STEIM1, numSamples |-> 2] }

\* "FDSN:X" and a one-character identifier outside ASCII
MS3Identifiers == { << 70, 68, 83, 78, 58, 88 >>, << 233 >> }

\* no extra headers, "", the compact {"k":1}, and the dicts {} and {"k": 1, "m": 2}
MS3ExtraHeaders ==
    { NoExtraHeaders,
      [kind |-> "str", val |-> << >>],
      [kind |-> "str", val |-> << 123, 34, 107, 34, 58, 49, 125 >>],
      [kind |-> "dict", val |-> << >>],
      [kind |-> "dict", val |-> << << 107, 1 >>, << 109, 2 >> >>] }

MS3Records ==
    LET built == { MSeed3Record([h EXCEPT !.encoding = d.encoding, !.numSamples = d.numSamples],
                                i, d.dataArg, e) :
                     h \in {HeaderOfTest, HeaderAtRangeEnd}, i \in MS3Identifiers,
                     d \in MS3Data, e \in MS3ExtraHeaders }
    IN  { b.rec : b \in { x \in built : ~x.err } }

\* the payload offsets where a byte is changed: the first MaxTamper and the last
MaxTamper == 4
TamperOffsets(n) == { k \in 0..(n - 1) : k < MaxTamper \/ k = n - 1 }
\* the bits changed in the byte
TamperMasks == {1, 128, 255}

SteimIdle ==
    /\ steimVersion = 0 /\ frames = 0 /\ input = << >> /\ cut = 0 /\ data = << >>
    /\ bias = 0 /\ frameBlock = NoBlock /\ decodeCount = 0 /\ decoded = NoResult
    /\ output = << >> /\ idx = 0

MS3Init ==
    /\ record \in MS3Records
    /\ wire = NoBytes
    /\ tamperAt = -1
    /\ checkCrc = TRUE
    /\ unpacked = [err |-> FALSE, why |-> "", rec |-> NoRecord]
    /\ readOut = [err |-> FALSE, why |-> "", out |-> << >>]
    /\ pc = "new"
    /\ SteimIdle
    /\ MergeIdle
    /\ LaterIdle

PackRecord ==
    /\ pc = "new"
    /\ LET r == RecordPack(record)
       IN  /\ record' = r.rec
           /\ wire' = r.recordBytes
           /\ pc' = IF r.err THEN "packError" ELSE "packed"
    /\ UNCHANGED << tamperAt, checkCrc, unpacked, readOut, steimVars, mergeVars, laterVars >>

\* where the payload starts in the packed record
PayloadOffset == FIXED_HEADER_SIZE + record.header.identifierLength
                     + record.header.extraHeadersLength

TamperPayload ==
    /\ pc = "packed"
    /\ \E k \in TamperOffsets(record.header.dataLength), mask \in TamperMasks :
          /\ wire' = [wire EXCEPT ![PayloadOffset + k + 1] = Xor8(@, mask)]
          /\ tamperAt' = PayloadOffset + k
    /\ pc' = "tampered"
    /\ UNCHANGED << record, checkCrc, unpacked, readOut, steimVars, mergeVars, laterVars >>

UnpackRecord ==
    /\ pc \in {"packed", "tampered"}
    /\ \E c \in BOOLEAN :
          /\ checkCrc' = c
          /\ unpacked' = unpackMSeed3Record(wire, c)
    /\ pc' = "unpacked"
    /\ UNCHANGED << record, wire, tamperAt, readOut, steimVars, mergeVars, laterVars >>

ReadRecords ==
    /\ pc \in {"packed", "tampered"}
    /\ \E c \in BOOLEAN :
          /\ checkCrc' = c
          /\ readOut' = readMSeed3Records(wire, c)
    /\ pc' = "read"
    /\ UNCHANGED << record, wire, tamperAt, unpacked, steimVars, mergeVars, laterVars >>

MS3Next == PackRecord \/ TamperPayload \/ UnpackRecord \/ ReadRecords

SpecMS3 == MS3Init /\ [][MS3Next]_vars


(***************************************************************************)
(* The merge of two records: mseed3merge is called with a first and a       *)
(* second record, either of which may be None.                              *)
(***************************************************************************)
\* 2024, day 2, 15:13:55.123456
MergeEpoch == [year |-> 2024, sec |-> 86400 + 15 * 3600 + 13 * 60 + 55, us |-> 123456]

\* the sample rates 1 Hz and 2 Hz and the sample period 2 s
MergeRates == { F64(1), F64(2), F64(-2) }

\* the microseconds from the start of the first record to the start of the second
MergeOffsets == { 500000, 1000000, 1249999, 1250000, 1500000, 2000000, 2499999, 2500000,
                  4000000, 4999999, 5000000 }

\* the payloads of a first record: two samples in each primitive encoding, the
\* 64 bytes of a Steim2 frame and a text payload
MergeFirstData ==
    { [dataArg |-> ndarray(INTEGER, << 70000, -1 >>), encoding |-> INTEGER, numSamples |-> 2],
      [dataArg |-> bytes(SamplesLE(SHORT, << 1, -2 >>)), encoding |-> SHORT, numSamples |-> 2],
      [dataArg |-> ndarray(FLOAT, << 1, -49 >>), encoding |-> FLOAT, numSamples |-> 2],
      [dataArg |-> ndarray(DOUBLE, << -300, 2 >>), encoding |-> DOUBLE,
       numSamples |-> 2],
      [dataArg |-> bytes([k \in 1..64 |-> 0]), encoding |-> STEIM2, numSamples |-> 3],
      [dataArg |-> bytes(<< 104, 105 >>), encoding |-> 0, numSamples |-> 2] }

MergeSecondData ==
    { [dataArg |-> bytes(SamplesLE(INTEGER, << 5, -70000 >>)), encoding |-> INTEGER,
       numSamples |-> 2],
      [dataArg |-> ndarray(SHORT, << 7, 8, -32768 >>), encoding |-> SHORT, numSamples |-> 3],
      [dataArg |-> ndarray(FLOAT, << 3 >>), encoding |-> FLOAT, numSamples |-> 1],
      [dataArg |-> bytes(SamplesLE(DOUBLE, << 7 >>)), encoding |-> DOUBLE,
       numSamples |-> 1],
      [dataArg |-> bytes([k \in 1..64 |-> 0]), encoding |-> STEIM2, numSamples |-> 3],
      [dataArg |-> bytes(<< 104, 105 >>), encoding |-> 0, numSamples |-> 2] }

\* no extra headers, "", the compact {"k":1} and the dict {"k": 1, "m": 2}
MergeExtraHeaders ==
    { NoExtraHeaders,
      [kind |-> "str", val |-> << >>],
      [kind |-> "str", val |-> << 123, 34, 107, 34, 58, 49, 125 >>],
      [kind |-> "dict", val |-> << << 107, 1 >>, << 109, 2 >> >>] }

MergeHeader(rate, version, t, d) ==
    [SetStarttime(MSeed3Header, t) EXCEPT !.sampleRatePeriod = rate,
                                          !.publicationVersion = version,
                                          !.encoding = d.encoding, !.numSamples = d.numSamples]

FDSN_X == << 70, 68, 83, 78, 58, 88 >>
FDSN_Y == << 70, 68, 83, 78, 58, 89 >>

ExtraKM == [kind |-> "dict", val |-> << << 107, 1 >>, << 109, 2 >> >>]
ExtraZ == [kind |-> "dict", val |-> << << 122, 9 >> >>]

\* the first records start at MergeEpoch: every rate with every payload, ...
MergeFirstWithData ==
    { MSeed3Record(MergeHeader(r, 0, MergeEpoch, d), FDSN_X, d.dataArg, ExtraKM).rec :
        r \in MergeRates, d \in MergeFirstData }

\* ... every form of extra headers, ...
MergeFirstWithExtra ==
    { MSeed3Record(MergeHeader(F64(1), 0, MergeEpoch, d), FDSN_X, d.dataArg, e).rec :
        d \in { x \in MergeFirstData : x.dataArg.kind = "ndarray" }, e \in MergeExtraHeaders }

\* ... and records whose second is the leap second 60
MergeFirstLeap ==
    { [b EXCEPT !.header.second = 60] : b \in { x \in MergeFirstWithExtra : x.eh.kind = "none" } }

MergeFirst == MergeFirstWithData \cup MergeFirstWithExtra \cup MergeFirstLeap

\* the second records: every rate with every payload at every offset, ...
MergeSecondInTime ==
    { MSeed3Record(MergeHeader(r, 0, PlusMicros(MergeEpoch, o), d), FDSN_X, d.dataArg,
                   ExtraZ).rec :
        r \in MergeRates, o \in MergeOffsets, d \in MergeSecondData }

\* ... another identifier or another publication version around the time the
\* first record's samples end, ...
MergeSecondOthers ==
    { MSeed3Record(MergeHeader(r, iv[2], PlusMicros(MergeEpoch, o), d), iv[1], d.dataArg,
                   ExtraZ).rec :
        r \in MergeRates, o \in {1000000, 2000000, 4000000}, d \in MergeSecondData,
        iv \in { << FDSN_Y, 0 >>, << FDSN_X, 1 >>, << FDSN_Y, 1 >> } }

\* ... and records whose second is the leap second 60
MergeSecondLeap ==
    { [b EXCEPT !.header.second = 60] :
        b \in { x \in MergeSecondInTime : x.header.encoding = INTEGER } }

MergeSecond == MergeSecondInTime \cup MergeSecondOthers \cup MergeSecondLeap

MergeInit ==
    /\ recA \in MergeFirst \cup {None}
    /\ recB \in MergeSecond \cup {None}
    /\ mergeOut = NoMerge
    /\ pc = "merge"
    /\ SteimIdle
    /\ MS3Idle
    /\ LaterIdle

Merge ==
    /\ pc = "merge"
    /\ LET r == mseed3merge(recA, recB)
       IN  /\ mergeOut' = [err |-> r.err, out |-> r.out]
           /\ recA' = r.a
    /\ pc' = "merged"
    /\ UNCHANGED << recB, steimVars, ms3Vars, laterVars >>

MergeNext == Merge

SpecMerge == MergeInit /\ [][MergeNext]_vars


(***************************************************************************)
(* Three records of one channel merged into one, folded from the left as   *)
(* the reader does and grouped to the right.                                *)
(***************************************************************************)
\* how far, in thousandths of a sample period, a record starts from the time
\* predicted for it
AssocDeviations == { -600, -300, 0, 300, 499, 500 }

\* the sampling of the channel: 1 Hz and a period of 2 s
AssocRates == { F64(1), F64(-2) }

\* the payloads of the three records: two samples each
AssocData ==
    { << [dataArg |-> bytes(SamplesLE(INTEGER, << 11, 12 >>)), encoding |-> INTEGER,
          numSamples |-> 2],
         [dataArg |-> ndarray(INTEGER, << 21, 22 >>), encoding |-> INTEGER, numSamples |-> 2],
         [dataArg |-> bytes(SamplesLE(INTEGER, << 31, 32 >>)), encoding |-> INTEGER,
          numSamples |-> 2] >>,
      << [dataArg |-> ndarray(SHORT, << 11, 12 >>), encoding |-> SHORT, numSamples |-> 2],
         [dataArg |-> ndarray(SHORT, << 21, 22 >>), encoding |-> SHORT, numSamples |-> 2],
         [dataArg |-> ndarray(SHORT, << 31, 32 >>), encoding |-> SHORT, numSamples |-> 2] >>,
      << [dataArg |-> ndarray(FLOAT, << 11, 12 >>), encoding |-> FLOAT, numSamples |-> 2],
         [dataArg |-> bytes(SamplesLE(FLOAT, << 21, 22 >>)), encoding |-> FLOAT,
          numSamples |-> 2],
         [dataArg |-> ndarray(FLOAT, << 31, 32 >>), encoding |-> FLOAT, numSamples |-> 2] >>,
      << [dataArg |-> bytes(SamplesLE(DOUBLE, << 11, 12 >>)), encoding |-> DOUBLE,
          numSamples |-> 2],
         [dataArg |-> bytes(SamplesLE(DOUBLE, << 21, 22 >>)), encoding |-> DOUBLE,
          numSamples |-> 2],
         [dataArg |-> ndarray(DOUBLE, << 31, 32 >>), encoding |-> DOUBLE, numSamples |-> 2] >> }

\* a record of the channel FDSN:X that starts o microseconds after MergeEpoch
AssocRecord(rate, o, d) ==
    MSeed3Record(MergeHeader(rate, 0, PlusMicros(MergeEpoch, o), d), FDSN_X, d.dataArg,
                 NoExtraHeaders).rec

\* the microseconds of dev thousandths of the sample period of a rate
AssocMicros(rate, dev) == (samplePeriod([MSeed3Header EXCEPT !.sampleRatePeriod = rate]).micros \div 1000) * dev

AssocInit ==
    /\ \E rate \in AssocRates, d \in AssocData, dev1 \in AssocDeviations, dev2 \in AssocDeviations :
          LET startB == AssocMicros(rate, 2000 + dev1)
              startC == startB + AssocMicros(rate, 2000 + dev2)
          IN  /\ recA = AssocRecord(rate, 0, d[1])
              /\ recB = AssocRecord(rate, startB, d[2])
              /\ recC = AssocRecord(rate, startC, d[3])
    /\ mergeOut = NoMerge
    /\ leftOut = NoMerge
    /\ rightOut = NoMerge
    /\ pc = "three"
    /\ SteimIdle
    /\ MS3Idle
    /\ ReaderIdle
    /\ NewerIdle

\* what follows the list that merging the first two records gave: one record,
\* it is merged with the third; two, the first is put out and the second is
\* merged with the third
thenThird(mlist, third) ==
    IF mlist.err THEN [err |-> TRUE, out |-> << >>]
    ELSE IF Len(mlist.out) = 1
    THEN [err |-> mseed3merge(mlist.out[1], third).err, out |-> mseed3merge(mlist.out[1], third).out]
    ELSE [err |-> mseed3merge(mlist.out[2], third).err,
          out |-> << mlist.out[1] >> \o mseed3merge(mlist.out[2], third).out]

\* what follows the list that merging the last two records gave: one record,
\* the first is merged with it; two, the first is merged with the second and
\* the third is put out
firstThen(first, mlist) ==
    IF mlist.err THEN [err |-> TRUE, out |-> << >>]
    ELSE IF Len(mlist.out) = 1
    THEN [err |-> mseed3merge(first, mlist.out[1]).err, out |-> mseed3merge(first, mlist.out[1]).out]
    ELSE [err |-> mseed3merge(first, mlist.out[1]).err,
          out |-> mseed3merge(first, mlist.out[1]).out \o << mlist.out[2] >>]

\* merge(merge(a, b), c)
FoldLeft ==
    /\ pc = "three"
    /\ leftOut' = thenThird(mseed3merge(recA, recB), recC)
    /\ pc' = "left"
    /\ UNCHANGED << recA, recB, recC, mergeOut, rightOut, steimVars, ms3Vars, readerVars,
                   newerVars >>

\* merge(a, merge(b, c))
GroupRight ==
    /\ pc = "left"
    /\ rightOut' = firstThen(recA, mseed3merge(recB, recC))
    /\ pc' = "both"
    /\ UNCHANGED << recA, recB, recC, mergeOut, leftOut, steimVars, ms3Vars, readerVars,
                   newerVars >>

AssocNext == FoldLeft \/ GroupRight

SpecAssoc == AssocInit /\ [][AssocNext]_vars


(***************************************************************************)
(* The reader: a file of up to MaxStream records is written and            *)
(* readMSeed3Records is run over it, pass by pass, to its end.              *)
(***************************************************************************)
MaxStream == 3

\* what a record of the file is made of: the identifier, the encoding of the
\* payload (0: text) and whether the record starts a second late
StreamChoices ==
    [identifier : {FDSN_X, FDSN_Y}, encoding : {INTEGER, STEIM2, 0}, late : {FALSE}]
        \cup { [identifier |-> FDSN_X, encoding |-> INTEGER, late |-> TRUE] }

\* the two samples of the k-th record of a file
StreamSamples(k) == << 10 * k + 1, 10 * k + 2 >>

\* the Steim2 frame of the two samples of the k-th record: the nibbles (one
\* word of differences), the first and the last sample, and the differences
\* 10 k + 1 and 1 as two 15-bit fields
StreamFrame(k) ==
    << 2, 0, 0, 0, 0, 0, 0, 10 * k + 1, 0, 0, 0, 10 * k + 2, 128, 5 * k, 128, 1 >>
        \o [j \in 1..48 |-> 0]

\* the payload of the k-th record in each encoding
StreamPayload(k, encoding) ==
    IF encoding = INTEGER THEN SamplesLE(INTEGER, StreamSamples(k))
    ELSE IF encoding = STEIM2 THEN StreamFrame(k)
    ELSE << 96 + k, 96 + k >>

\* the k-th record of a file: two samples at 1 Hz, starting 2 (k - 1) seconds
\* after MergeEpoch or a second later; the records FDSN:Y carry extra headers
StreamRecord(k, c) ==
    MSeed3Record([SetStarttime(MSeed3Header,
                               PlusMicros(MergeEpoch,
                                          (2 * (k - 1) + (IF c.late THEN 1 ELSE 0)) * 1000000))
                     EXCEPT !.encoding = c.encoding, !.numSamples = 2],
                 c.identifier, bytes(StreamPayload(k, c.encoding)),
                 IF c.identifier = FDSN_Y
                 THEN [kind |-> "str", val |-> << 123, 34, 107, 34, 58, 49, 125 >>]
                 ELSE NoExtraHeaders).rec

Streams ==
    UNION { { [k \in 1..n |-> StreamRecord(k, cs[k])] : cs \in [1..n -> StreamChoices] } :
            n \in 0..MaxStream }

\* the bytes of the file the records are written to, one after the other
RECURSIVE FileOf(_)
FileOf(recs) ==
    IF recs = << >> THEN << >>
    ELSE RecordPack(Head(recs)).recordBytes \o FileOf(Tail(recs))

\* no filter, "X" and "FDSN:"
MatchPatterns ==
    { None, [pattern |-> << 88 >>], [pattern |-> << 70, 68, 83, 78, 58 >>] }

ReaderInit ==
    /\ stream \in Streams
    /\ fileptr = [bytes |-> FileOf(stream), pos |-> 0]
    /\ check_crc_arg = TRUE
    /\ matchsid \in MatchPatterns
    /\ merge \in BOOLEAN
    /\ prev = None
    /\ yielded = << >>
    /\ pc = "reading"
    /\ SteimIdle
    /\ MS3Idle
    /\ MergeIdle
    /\ AssocIdle
    /\ NewerIdle

\* whether a read at the position of the file gives no bytes
AtEndOfFile == fileptr.pos >= Len(fileptr.bytes)

\* the look-behind and the records yielded after a fold
Folded(f) ==
    /\ pc' = IF f.err THEN "readerError" ELSE pc
    /\ prev' = f.prev
    /\ yielded' = yielded \o f.yield

\* what the loop does with the record a pass has read or skipped
Passed(p) ==
    /\ fileptr' = [fileptr EXCEPT !.pos = p.pos]
    /\ IF p.err
       THEN pc' = "readerError" /\ UNCHANGED << prev, yielded >>
       ELSE IF ~p.matched
       THEN UNCHANGED << pc, prev, yielded >>
       ELSE IF merge /\ canDecompress(p.rec.header.encoding)
       THEN Folded(fold(prev, p.rec))
       ELSE /\ yielded' = Append(yielded, p.rec)
            /\ UNCHANGED << pc, prev >>

\* a pass of the loop over one record of the file
ReaderPass ==
    /\ pc = "reading"
    /\ ~AtEndOfFile
    /\ Passed(ReadPass(fileptr.bytes, fileptr.pos, check_crc_arg, matchsid))
    /\ UNCHANGED << stream, check_crc_arg, matchsid, merge, steimVars, ms3Vars, mergeVars,
                    assocVars, newerVars >>

\* the read that gives no bytes: the loop ends and the look-behind is yielded
ReaderFinish ==
    /\ pc = "reading"
    /\ AtEndOfFile
    /\ yielded' = IF prev # None THEN Append(yielded, prev) ELSE yielded
    /\ pc' = "finished"
    /\ UNCHANGED << stream, fileptr, check_crc_arg, matchsid, merge, prev, steimVars,
                    ms3Vars, mergeVars, assocVars, newerVars >>

ReaderNext == ReaderPass \/ ReaderFinish

SpecReader == ReaderInit /\ [][ReaderNext]_vars

(***************************************************************************)
(* miniSEED-2: a caller builds a record as the tests do, packs it and      *)
(* parses the bytes; a record of a file is parsed, converted to miniSEED-3 *)
(* and cloned.  The record of the file has the fields of the record built, *)
(* and the flags and the record length its writer chose.                   *)
(***************************************************************************)
MaxLengthExp == 10

\* the start times: the one of the tests, one with microseconds below the tenth
\* of a millisecond, the last tenth of a millisecond of a year, and a year
\* whose first byte is 8 and second 7
V2Times ==
    { [year |-> 2024, sec |-> 54835, us |-> 123400],
      [year |-> 2024, sec |-> 54835, us |-> 123456],
      [year |-> 2024, sec |-> 366 * 86400 - 1, us |-> 999900],
      [year |-> 2055, sec |-> 54835, us |-> 123400] }

\* the samples: int16 and int32 arrays, float32 and float64 arrays, of the
\* machine's byte order and big-endian
V2Data ==
    { [kind |-> "ndarray", dtype |-> SHORT, order |-> "=", val |-> << 1, -2, 300 >>],
      [kind |-> "ndarray", dtype |-> INTEGER, order |-> "=", val |-> << 70000, -5 >>],
      [kind |-> "ndarray", dtype |-> INTEGER, order |-> ">", val |-> << 70000, -5 >>],
      [kind |-> "ndarray", dtype |-> FLOAT, order |-> "=", val |-> << 3, -49 >>],
      [kind |-> "ndarray", dtype |-> DOUBLE, order |-> "=", val |-> << 3, -49 >>] }

\* network, station, location and channel: the codes of the tests, an empty
\* location, and a station of six characters
V2Codes ==
    { [network |-> << 88, 88 >>, station |-> << 84, 69, 83, 84 >>, location |-> << 48, 48 >>,
       channel |-> << 72, 78, 90 >>],
      [network |-> << 88, 88 >>, station |-> << 84, 69, 83, 84 >>, location |-> << >>,
       channel |-> << 72, 78, 90 >>],
      [network |-> << 88, 88 >>, station |-> << 84, 69, 83, 84, 83, 84 >>,
       location |-> << 48, 48 >>, channel |-> << 72, 78, 90 >>] }

\* the sample rate of 200 Hz as the factor and multiplier 200 and 1, or left
\* to calcSeedMultipilerFactor
V2RateForms == { << 200, 1 >>, << 0, 0 >> }

\* the blockette 1001 of the record: none, or its time quality and microseconds
V2Blockette1001 ==
    { [present |-> FALSE, timeQuality |-> 0, microseconds |-> 0],
      [present |-> TRUE, timeQuality |-> 0, microseconds |-> 0],
      [present |-> TRUE, timeQuality |-> 0, microseconds |-> 40],
      [present |-> TRUE, timeQuality |-> 100, microseconds |-> 40],
      [present |-> TRUE, timeQuality |-> 100, microseconds |-> 206] }

\* a start time three tenths of a millisecond before the end of a second, and a
\* blockette 1001 whose microseconds byte is 206
V2LateTime == [year |-> 2024, sec |-> 54835, us |-> 999700]
V2LateCorrection == [present |-> TRUE, timeQuality |-> 100, microseconds |-> 206]

\* the activity, I/O and quality flag bytes of the record of the file
V2ActFlags == { 0, 1, 254 }
V2IoFlags == { 0, 64, 191 }
V2QualFlags == { 0, 16, 239 }

\* what is chosen of a record: the one of the tests, with one or two of the
\* choices varied
V2Base ==
    [time |-> [year |-> 2024, sec |-> 54835, us |-> 123400],
     data |-> [kind |-> "ndarray", dtype |-> SHORT, order |-> "=", val |-> << 1, -2, 300 >>],
     codes |-> [network |-> << 88, 88 >>, station |-> << 84, 69, 83, 84 >>,
                location |-> << 48, 48 >>, channel |-> << 72, 78, 90 >>],
     rateForm |-> << 200, 1 >>,
     b1001 |-> [present |-> FALSE, timeQuality |-> 0, microseconds |-> 0],
     actFlag |-> 0, ioFlag |-> 0, qualFlag |-> 0, recLength |-> 9]

V2Choices ==
    { [V2Base EXCEPT !.data = d, !.recLength = e, !.rateForm = r] :
          d \in V2Data, e \in 8..MaxLengthExp, r \in V2RateForms }
        \cup { [V2Base EXCEPT !.actFlag = a, !.ioFlag = i, !.qualFlag = q] :
                   a \in V2ActFlags, i \in V2IoFlags, q \in V2QualFlags }
        \cup { [V2Base EXCEPT !.b1001 = b, !.time = t] : b \in V2Blockette1001, t \in V2Times }
        \cup { [V2Base EXCEPT !.codes = c, !.time = t] : c \in V2Codes, t \in V2Times }
        \cup { [V2Base EXCEPT !.b1001 = V2LateCorrection, !.time = V2LateTime] }

\* the header and the record of a choice, built as test_create builds them
V2Header(c) ==
    MiniseedHeader(c.codes.network, c.codes.station, c.codes.location, c.codes.channel,
                   c.time, Len(c.data.val), 200,
                   [HeaderDefaults EXCEPT !.sampRateFactor = c.rateForm[1],
                                          !.sampRateMult = c.rateForm[2]]).header

V2Record(c) ==
    MiniseedRecord(V2Header(c), c.data, NoEncoded,
                   IF c.b1001.present
                   THEN << Blockette1000(1000, 56, c.data.dtype, LITTLE_ENDIAN, 9),
                           Blockette1001(1001, 0, c.b1001.timeQuality,
                                         c.b1001.microseconds, 0) >>
                   ELSE << >>).rec

\* the record of a file: the bytes of a record with the flag bytes at 36, 37
\* and 38 and in 2^recLength bytes, the blockette 1000 at 48 saying so
AsWritten(recordBytes, actFlag, ioFlag, qualFlag, recLength) ==
    [k \in 1..Pow2(recLength) |->
        IF k = 37 THEN actFlag
        ELSE IF k = 38 THEN ioFlag
        ELSE IF k = 39 THEN qualFlag
        ELSE IF k = 55 THEN recLength
        ELSE IF k <= Len(recordBytes) THEN recordBytes[k]
        ELSE 0]

V2File(c) ==
    AsWritten(RecordPack2(V2Record(c)).recordBytes, c.actFlag, c.ioFlag, c.qualFlag,
              c.recLength)

MS2Init ==
    /\ \E c \in V2Choices :
          /\ msr = V2Record(c)
          /\ fileRecord = V2File(c)
    /\ packedOut = NoPacked2
    /\ outmsr = NoResult2
    /\ parsed = NoResult2
    /\ converted = [err |-> FALSE, rec |-> NoRecord]
    /\ repacked = NoPacked2
    /\ cloned = NoResult2
    /\ pc = "build"
    /\ SteimIdle
    /\ MS3Idle
    /\ MergeIdle
    /\ ReaderIdle
    /\ AssocIdle
    /\ SidIdle
    /\ LastIdle

\* recordBytes = msr.pack()
Pack2 ==
    /\ pc = "build"
    /\ packedOut' = RecordPack2(msr)
    /\ msr' = packedOut'.rec
    /\ pc' = "packed"
    /\ UNCHANGED << outmsr, fileRecord, parsed, converted, repacked, cloned, steimVars,
                    ms3Vars, mergeVars, readerVars, assocVars, sidVars, lastVars >>

\* outmsr = unpackMiniseedRecord(recordBytes)
Unpack2 ==
    /\ pc = "packed"
    /\ outmsr' = IF packedOut.err THEN [err |-> TRUE, rec |-> NoRecord2]
                 ELSE unpackMiniseedRecord(packedOut.recordBytes)
    /\ pc' = "unpacked"
    /\ UNCHANGED << msr, packedOut, fileRecord, parsed, converted, repacked, cloned,
                    steimVars, ms3Vars, mergeVars, readerVars, assocVars, sidVars, lastVars >>

\* ms2 = unpackMiniseedRecord(rec_bytes) of the record of the file
ParseFile ==
    /\ pc = "unpacked"
    /\ parsed' = unpackMiniseedRecord(fileRecord)
    /\ pc' = "parsed"
    /\ UNCHANGED << msr, packedOut, outmsr, fileRecord, converted, repacked, cloned,
                    steimVars, ms3Vars, mergeVars, readerVars, assocVars, sidVars, lastVars >>

\* ms3 = mseed2to3(ms2)
Convert ==
    /\ pc = "parsed"
    /\ ~parsed.err
    /\ converted' = mseed2to3(parsed.rec)
    /\ pc' = "converted"
    /\ UNCHANGED << msr, packedOut, outmsr, fileRecord, parsed, repacked, cloned, steimVars,
                    ms3Vars, mergeVars, readerVars, assocVars, sidVars, lastVars >>

\* ms2.clone(): the pack of the record parsed, and the parse of its bytes
Clone ==
    /\ pc = "converted"
    /\ repacked' = RecordPack2(parsed.rec)
    /\ parsed' = [parsed EXCEPT !.rec = repacked'.rec]
    /\ cloned' = IF repacked'.err THEN [err |-> TRUE, rec |-> NoRecord2]
                 ELSE unpackMiniseedRecord(repacked'.recordBytes)
    /\ pc' = "cloned"
    /\ UNCHANGED << msr, packedOut, outmsr, fileRecord, converted, steimVars, ms3Vars,
                    mergeVars, readerVars, assocVars, sidVars, lastVars >>

MS2Next == Pack2 \/ Unpack2 \/ ParseFile \/ Convert \/ Clone

SpecMS2 == MS2Init /\ [][MS2Next]_vars

(***************************************************************************)
(* Source ids: an id of one of the four classes is made from its codes,    *)
(* validated, written with str() and the text handed to                    *)
(* FDSNSourceId.parse.                                                     *)
(***************************************************************************)
\* the codes an id is made of: codes the patterns accept, empty codes, codes
\* in lower case, with a dash and with the separator
SidNetworks == { << 88, 88 >>, << 67, 79 >>, << >>, << 120, 120 >> }
SidStations == { << 83, 84, 65 >>, << 65, 45, 66 >>, << >> }
SidLocations == { << >>, << 48, 48 >>, << 45, 45 >>, << 48, 45 >> }
SidBands == { << >>, << 72 >>, << 66, 95, 66 >>, << 95 >> }
SidSources == { << 72 >>, << >>, << 104 >> }
SidSubsources == { << 90 >>, << >>, << 90, 95 >> }

SidChoices ==
    { NetworkSourceId(n) : n \in SidNetworks }
        \cup { StationSourceId(n, s) : n \in SidNetworks, s \in SidStations }
        \cup { LocationSourceId(n, s, l) :
                   n \in SidNetworks, s \in SidStations, l \in SidLocations }
        \cup { FDSNSourceId(c[1], c[2], c[3], c[4], c[5], c[6]) :
                   c \in SidNetworks \X SidStations \X SidLocations \X SidBands
                             \X SidSources \X SidSubsources }

SidInit ==
    /\ sid \in SidChoices
    /\ sidValid = FALSE
    /\ sidText = << >>
    /\ sidParsed = NoParse
    /\ pc = "sid"
    /\ SteimIdle
    /\ MS3Idle
    /\ MergeIdle
    /\ ReaderIdle
    /\ AssocIdle
    /\ MS2Idle
    /\ LastIdle

\* (valid, reason) = sid.validate()
ValidateSid ==
    /\ pc = "sid"
    /\ sidValid' = validate(sid)
    /\ pc' = "sidValidated"
    /\ UNCHANGED << sid, sidText, sidParsed, steimVars, ms3Vars, mergeVars, readerVars,
                    assocVars, ms2Vars, lastVars >>

\* text = str(sid)
FormatSid ==
    /\ pc = "sidValidated"
    /\ sidText' = SourceIdStr(sid)
    /\ pc' = "sidFormatted"
    /\ UNCHANGED << sid, sidValid, sidParsed, steimVars, ms3Vars, mergeVars, readerVars,
                    assocVars, ms2Vars, lastVars >>

\* FDSNSourceId.parse(text)
ParseSid ==
    /\ pc = "sidFormatted"
    /\ sidParsed' = parse(sidText)
    /\ pc' = "sidParsed"
    /\ UNCHANGED << sid, sidValid, sidText, steimVars, ms3Vars, mergeVars, readerVars,
                    assocVars, ms2Vars, lastVars >>

SidNext == ValidateSid \/ FormatSid \/ ParseSid

SpecSid == SidInit /\ [][SidNext]_vars

(***************************************************************************)
(* Seed-style codes: FDSNSourceId.fromNslc is called with a network, a     *)
(* station, a location and a channel code, and asNslc on the id it gave.   *)
(***************************************************************************)
\* the channel codes: of three characters (one with the separator), with
\* separators and longer or single-character source and subsource, with an
\* empty subsource, with a separator inside the source, and codes that
\* fromNslc refuses
NslcChannels ==
    { << 66, 72, 90 >>, << 66, 95, 90 >>, << 66, 95, 65, 65, 95, 81, 87 >>,
      << 66, 95, 72, 95, 90 >>, << 66, 95, 72, 72, 95 >>, << 66, 95, 72, 95 >>,
      << 66, 95, 72, 95, 90, 90 >>, << 66, 95, 65, 95, 66, 95, 67 >>,
      << 95, 95, 72, 95, 90 >>, << 66, 95, 95, 90 >>, << 66, 72 >>, << 66, 72, 90, 49 >> }

NslcChoices ==
    { NslcId(n, s, l, c) : n \in { << 88, 88 >>, << 67, 79 >> },
                           s \in { << 83, 84, 65 >>, << 65, 45, 66 >> },
                           l \in { << >>, << 48, 48 >> }, c \in NslcChannels }

NslcInit ==
    /\ nslcIn \in NslcChoices
    /\ nslcSid = NoParse
    /\ nslcOut = NoNslc
    /\ pc = "nslc"
    /\ SteimIdle
    /\ MS3Idle
    /\ MergeIdle
    /\ ReaderIdle
    /\ AssocIdle
    /\ MS2Idle
    /\ SidIdle
    /\ BandIdle
    /\ PartIdle

\* sid = FDSNSourceId.fromNslc(net, sta, loc, chan)
FromNslc ==
    /\ pc = "nslc"
    /\ nslcSid' = fromNslc(nslcIn.networkCode, nslcIn.stationCode, nslcIn.locationCode,
                           nslcIn.channelCode)
    /\ pc' = IF nslcSid'.err THEN "nslcError" ELSE "nslcSid"
    /\ UNCHANGED << nslcIn, nslcOut, steimVars, ms3Vars, mergeVars, readerVars, assocVars,
                    ms2Vars, sidVars, bandVars, partVars >>

\* nslc = sid.asNslc()
AsNslc ==
    /\ pc = "nslcSid"
    /\ nslcOut' = asNslc(nslcSid.id)
    /\ pc' = "nslcOut"
    /\ UNCHANGED << nslcIn, nslcSid, steimVars, ms3Vars, mergeVars, readerVars, assocVars,
                    ms2Vars, sidVars, bandVars, partVars >>

NslcNext == FromNslc \/ AsNslc

SpecNslc == NslcInit /\ [][NslcNext]_vars

(***************************************************************************)
(* Band codes: bandCodeForRate is called with a rate or a period and a     *)
(* lower bound of the response.                                            *)
(***************************************************************************)
\* the rates: the bounds of the intervals, rates inside them, None, 0 and
\* periods (negative)
BandRates ==
    { NoNumber, Fraction(0, 1) }
        \cup { Fraction(n, 1) : n \in { 7500, 5000, 2000, 1000, 500, 250, 100, 80, 20, 10, 5,
                                        1, -1, -10 } }
        \cup { Fraction(1, d) : d \in { 2, 4, 10, 20, 100, 1000, 10000, 100000, 1000000,
                                        2000000 } }
        \cup { Fraction(3, 2), Fraction(5, 4), Fraction(3, 4), Fraction(3, 5),
               Fraction(-4, 3), Fraction(-1, 20) }

\* the lower bounds of the response: None, 0.5 Hz, 0.1 Hz, 0.05 Hz, 0 and a
\* period of 100 s
BandResponses ==
    { NoNumber, Fraction(1, 2), Fraction(1, 10), Fraction(1, 20), Fraction(0, 1),
      Fraction(-100, 1) }

BandInit ==
    /\ sampRatePeriod \in BandRates
    /\ response_lb \in BandResponses
    /\ band = NoBand
    /\ pc = "rate"
    /\ SteimIdle
    /\ MS3Idle
    /\ MergeIdle
    /\ ReaderIdle
    /\ AssocIdle
    /\ MS2Idle
    /\ SidIdle
    /\ NslcIdle
    /\ PartIdle

\* band = bandCodeForRate(sampRatePeriod, response_lb)
BandCode ==
    /\ pc = "rate"
    /\ band' = bandCodeForRate(sampRatePeriod, response_lb)
    /\ pc' = "band"
    /\ UNCHANGED << sampRatePeriod, response_lb, steimVars, ms3Vars, mergeVars, readerVars,
                    assocVars, ms2Vars, sidVars, nslcVars,
                    partVars >>

BandNext == BandCode

SpecBand == BandInit /\ [][BandNext]_vars

\* the variables of the callers before, and their states at rest
beforeParts == << steimVars, ms3Vars, mergeVars, readerVars, assocVars, ms2Vars, sidVars,
                  nslcVars, bandVars >>
BeforePartsIdle ==
    /\ SteimIdle
    /\ MS3Idle
    /\ MergeIdle
    /\ ReaderIdle
    /\ AssocIdle
    /\ MS2Idle
    /\ SidIdle
    /\ NslcIdle
    /\ BandIdle

(***************************************************************************)
(* unpackMiniseedRecord, one turn of its while loop at a time: the byte    *)
(* order is guessed and the fixed header read, the chain of blockettes is  *)
(* followed from header.blocketteOffset while nextBOffset > 0, then the    *)
(* data is taken.  The records are the record of the tests with a blockette*)
(* 1001, with the two bytes of the year or the nextOffset of its two       *)
(* blockettes replaced.                                                    *)
(***************************************************************************)
\* the most blockettes the model lets the loop append
MaxChain == 4

\* the record of the tests with a blockette 1000 at 48 and a blockette 1001 at
\* 56, written in 512 bytes in the byte order of its header
ChainRecord(byteorder) ==
    MiniseedRecord(MiniseedHeader(V2Base.codes.network, V2Base.codes.station,
                                  V2Base.codes.location, V2Base.codes.channel, V2Base.time,
                                  Len(V2Base.data.val), 200,
                                  [HeaderDefaults EXCEPT !.byteorder = byteorder]).header,
                   V2Base.data, NoEncoded,
                   << Blockette1000(1000, 56, V2Base.data.dtype, byteorder, 9),
                      Blockette1001(1001, 0, 100, 40, 0) >>).rec

ChainBase == AsWritten(RecordPack2(ChainRecord(BIG_ENDIAN)).recordBytes, 0, 0, 0, 9)
ChainBaseLittle == AsWritten(RecordPack2(ChainRecord(LITTLE_ENDIAN)).recordBytes, 0, 0, 0, 9)

\* the bytes put at 20 and at 21
YearBytes == { 0, 6, 7, 8, 9, 232, 255 }

\* the nextOffset put in the blockette at 48 and in the blockette at 56
ChainOffsets == { 0, 40, 48, 56, 64, 600 }

ChainRecords ==
    { SliceAssign(base, 20, 22, << a, b >>) :
          base \in { ChainBase, ChainBaseLittle }, a \in YearBytes, b \in YearBytes }
        \cup { SliceAssign(SliceAssign(ChainBase, 50, 52, PackH(">", m)), 58, 60, PackH(">", n)) :
                   m \in ChainOffsets, n \in ChainOffsets }

ChainInit ==
    /\ chainBytes \in ChainRecords
    /\ chainHeader = [err |-> FALSE, header |-> NoHeader2]
    /\ chainBlockettes = << >>
    /\ chainOffset = 0
    /\ chainOut = NoResult2
    /\ pc = "guess"
    /\ BeforePartsIdle
    /\ W0Idle
    /\ WriterIdle
    /\ AgreeIdle

\* header = unpackFixedHeaderGuessByteOrder(recordBytes), up to the while
GuessByteOrder ==
    /\ pc = "guess"
    /\ chainHeader' = unpackFixedHeaderGuessByteOrder(chainBytes)
    /\ chainOffset' = IF ~chainHeader'.err /\ chainHeader'.header.numBlockettes > 0
                      THEN chainHeader'.header.blocketteOffset ELSE 0
    /\ pc' = IF chainHeader'.err THEN "chainError"
             ELSE IF chainOffset' > 0 THEN "chain" ELSE "data"
    /\ UNCHANGED << chainBytes, chainBlockettes, chainOut, beforeParts, w0Vars, writerVars,
                    agreeVars >>

\* one turn of the while loop: the blockette at nextBOffset is read in the byte
\* order guessed before the loop, appended and applied to the header, and
\* nextBOffset becomes its nextOffset
FollowChain ==
    /\ pc = "chain"
    /\ Len(chainBlockettes) < MaxChain
    /\ LET read == unpackBlockette(chainBytes, chainOffset, guessEndianChar(chainBytes),
                                   chainHeader.header.dataOffset)
           applied == IF read.err THEN [err |-> TRUE, header |-> chainHeader.header]
                      ELSE applyBlockette(chainHeader.header, read.b)
       IN  IF read.err \/ applied.err
           THEN /\ pc' = "chainError"
                /\ UNCHANGED << chainHeader, chainBlockettes, chainOffset >>
           ELSE /\ chainBlockettes' = Append(chainBlockettes, read.b)
                /\ chainHeader' = applied
                /\ chainOffset' = read.b.nextOffset
                /\ pc' = IF read.b.nextOffset > 0 THEN "chain" ELSE "data"
    /\ UNCHANGED << chainBytes, chainOut, beforeParts, w0Vars, writerVars,
                    agreeVars >>

\* the rest of unpackMiniseedRecord: the data, and the record returned
TakeData ==
    /\ pc = "data"
    /\ chainOut' = unpackData(chainBytes, [err |-> FALSE, header |-> chainHeader.header,
                                           blockettes |-> chainBlockettes])
    /\ pc' = IF chainOut'.err THEN "chainError" ELSE "chainDone"
    /\ UNCHANGED << chainBytes, chainHeader, chainBlockettes, chainOffset, beforeParts,
                    w0Vars, writerVars, agreeVars >>

ChainNext == GuessByteOrder \/ FollowChain \/ TakeData

SpecChain == ChainInit /\ [][ChainNext]_vars

(***************************************************************************)
(* A Steim decoder handed a payload whose nibble word W0 does not start    *)
(* with 00: the payload is an encoded block with the top two bits of the   *)
(* W0 of one frame replaced.                                               *)
(***************************************************************************)
W0Inputs ==
    { Periodic(p, n) : p \in { << 10, 130, -9000 >>, << 0, 10, 0 >>,
                               << 536870911, -536870911, 0 >> },
                       n \in { 1, 5, LongLen } }

\* the bytes with the top two bits of the W0 of a frame set to the code
SetW0Code(dataBytes, frame, code) ==
    [dataBytes EXCEPT ![64 * frame + 1] = 64 * code + (@ % 64)]

W0Init ==
    /\ w0Version \in { 1, 2 }
    /\ \E x \in W0Inputs :
          LET fb == encodeSteimFrameBlock(w0Version, x, 0, 0).fb
          IN  /\ w0Count = fb.numSamples
              /\ \E frame \in 0..(Len(fb.steimFrameList) - 1), code \in 0..3 :
                     w0Bytes = SetW0Code(BlockPack(fb), frame, code)
    /\ w0Decoded = NoResult
    /\ pc = "w0"
    /\ BeforePartsIdle
    /\ ChainIdle
    /\ WriterIdle
    /\ AgreeIdle

\* decodeSteim1(dataBytes, numSamples, 0) or decodeSteim2(dataBytes, numSamples, 0)
DecodeW0 ==
    /\ pc = "w0"
    /\ w0Decoded' = decodeSteim(w0Version, w0Bytes, w0Count, 0)
    /\ pc' = "w0Decoded"
    /\ UNCHANGED << w0Version, w0Bytes, w0Count, beforeParts, chainVars, writerVars,
                    agreeVars >>

W0Next == DecodeW0

SpecW0 == W0Init /\ [][W0Next]_vars

(***************************************************************************)
(* The frame block writer: addEncodedWord is called on a new               *)
(* SteimFrameBlock again and again, until it reports the block full.  The  *)
(* word, the samples and the nibble of the n-th call follow a pattern.     *)
(***************************************************************************)
\* the largest frame cap of a block written, and the most calls made
MaxCap == 2
MaxWords == 32

WriterPatterns == { [a |-> a, b |-> b] : a \in { 0, 1, 3 }, b \in 0..3 }

\* the arguments of the n-th call
NibbleOf(p, n) == (p.a * n + p.b) % 4
SamplesOf(p, n) == (p.b + 2 * n) % 8
WordOf(p, n) == IF n % 2 = 0 THEN n * 1000003 ELSE -1 * n

WriterInit ==
    /\ \E maxNumFrames \in 0..MaxCap, version \in { 1, 2 } :
          writerBlock = SteimFrameBlock(maxNumFrames, version)
    /\ writerPattern \in WriterPatterns
    /\ writerCalls = 0
    /\ writerFull = FALSE
    /\ pc = "write"
    /\ BeforePartsIdle
    /\ ChainIdle
    /\ W0Idle
    /\ AgreeIdle

\* full = frameBlock.addEncodedWord(word, samples, nibble)
AddWord ==
    /\ pc = "write"
    /\ writerCalls < MaxWords
    /\ LET r == addEncodedWord(writerBlock, WordOf(writerPattern, writerCalls + 1),
                               SamplesOf(writerPattern, writerCalls + 1),
                               NibbleOf(writerPattern, writerCalls + 1))
       IN  /\ writerBlock' = r.fb
           /\ writerFull' = r.full
           /\ pc' = IF r.full THEN "full" ELSE "write"
    /\ writerCalls' = writerCalls + 1
    /\ UNCHANGED << writerPattern, beforeParts, chainVars, w0Vars, agreeVars >>

WriterNext == AddWord

SpecWriter == WriterInit /\ [][WriterNext]_vars

(***************************************************************************)
(* A file of records, one of which may have a byte changed, is read with   *)
(* readMSeed3Records, and each of its records is handed to                 *)
(* unpackMSeed3Record.                                                     *)
(***************************************************************************)
\* what a record of the file is made of
AgreeChoices ==
    { [identifier |-> FDSN_X, encoding |-> INTEGER, late |-> FALSE],
      [identifier |-> FDSN_Y, encoding |-> 0, late |-> FALSE] }

\* the offsets of the byte changed in a record of n bytes: the format version,
\* the first byte of the CRC, the first byte of the identifier, the last byte
\* of the payload
AgreeOffsets(n) == { 2, CRC_OFFSET, FIXED_HEADER_SIZE, n - 1 }

\* the records as written, and with one byte of one record changed
AgreeFiles(written) ==
    { written }
        \cup UNION { { [written EXCEPT ![k][o + 1] = Xor8(@, mask)] :
                          o \in AgreeOffsets(Len(written[k])), mask \in { 1, 128 } } :
                      k \in 1..Len(written) }

\* the bytes of the records one after the other
RECURSIVE Concatenated(_)
Concatenated(records) ==
    IF records = << >> THEN << >> ELSE Head(records) \o Concatenated(Tail(records))

AgreeInit ==
    /\ \E n \in 1..MaxStream :
          \E cs \in [1..n -> AgreeChoices] :
             agreeRecords \in
                 AgreeFiles([k \in 1..n |-> RecordPack(StreamRecord(k, cs[k])).recordBytes])
    /\ agreeCrc \in BOOLEAN
    /\ agreeRead = [err |-> FALSE, why |-> "", out |-> << >>]
    /\ agreeParsed = << >>
    /\ pc = "file"
    /\ BeforePartsIdle
    /\ ChainIdle
    /\ W0Idle
    /\ WriterIdle

\* list(readMSeed3Records(fileptr, check_crc)) up to the end or the exception
ReadFile ==
    /\ pc = "file"
    /\ agreeRead' = readMSeed3Records(Concatenated(agreeRecords), agreeCrc)
    /\ pc' = "fileRead"
    /\ UNCHANGED << agreeRecords, agreeCrc, agreeParsed, beforeParts, chainVars, w0Vars,
                    writerVars >>

\* unpackMSeed3Record(recordBytes, check_crc) of each record of the file
ParseEach ==
    /\ pc = "fileRead"
    /\ agreeParsed' = [k \in 1..Len(agreeRecords) |->
                           unpackMSeed3Record(agreeRecords[k], agreeCrc)]
    /\ pc' = "fileParsed"
    /\ UNCHANGED << agreeRecords, agreeCrc, agreeRead, beforeParts, chainVars, w0Vars,
                    writerVars >>

AgreeNext == ReadFile \/ ParseEach

SpecAgree == AgreeInit /\ [][AgreeNext]_vars



(***************************************************************************)
(* Properties of the Steim codecs.                                         *)
(***************************************************************************)
InRange29(X) == \A i \in 1..Len(X) : -536870912 <= X[i] /\ X[i] <= 536870912

Fits30(d) == -536870912 <= d /\ d < 536870912

\* the first difference X[1] - b and every difference X[i] - X[i-1] fit 30 bits
DiffsFit30(X, b) ==
    /\ Fits30(X[1] - b)
    /\ \A i \in 2..Len(X) : Fits30(X[i] - X[i - 1])

Encoded == pc \in {"decode", "advance", "probe", "done"}

\* the whole input went into one block and decoding it with count |X| gave X back
RoundTripped ==
    /\ pc # "encodeError"
    /\ Encoded => frameBlock.numSamples = Len(input)
    /\ pc = "probe" => decodeCount # Len(input)
    /\ pc \in {"advance", "done"} => ~decoded.err /\ decoded.samples = input

\* C1 as stated: Steim2 round-trip: for every non-empty int32 sequence X whose
\* values all lie within +/-2^29, encodeSteim2(X) succeeds and
\* decodeSteim2(encodeSteim2(X), |X|, bias=0) returns exactly X.
C1_Steim2RoundTripOfValues ==
    (steimVersion = 2 /\ frames = 0 /\ cut = 0 /\ InRange29(input)) => RoundTripped

\* C1 as amended: for every non-empty int32 sequence X whose first value and
\* whose successive differences X[i] - X[i-1] all lie in -2^29 .. 2^29 - 1,
\* encodeSteim2(X) succeeds and decodeSteim2(encodeSteim2(X), |X|, bias=0)
\* returns exactly X.
C1_Steim2RoundTrip ==
    (steimVersion = 2 /\ frames = 0 /\ cut = 0 /\ DiffsFit30(input, 0)) => RoundTripped

C1_Witness ==
    /\ steimVersion = 2 /\ frames = 0 /\ cut = 0 /\ pc = "advance"
    /\ DiffsFit30(input, 0)
    /\ Len(input) = LongLen /\ Len(frameBlock.steimFrameList) >= 2
    /\ \E i \in 2..Len(input) : input[i] - input[i - 1] < -16384
    /\ decoded.samples = input

\* C2: Steim1 round-trip: for every non-empty int32 sequence X whose values all
\* lie within +/-2^29, decodeSteim1(encodeSteim1(X), |X|, bias=0) returns
\* exactly X (same length, values and order), the frame cap left unlimited.
C2_Steim1RoundTrip ==
    (steimVersion = 1 /\ frames = 0 /\ cut = 0 /\ InRange29(input)) => RoundTripped

C2_Witness ==
    /\ steimVersion = 1 /\ frames = 0 /\ cut = 0 /\ pc = "advance"
    /\ Len(input) = LongLen /\ Len(frameBlock.steimFrameList) >= 2
    /\ \E i \in 2..Len(input) : input[i] - input[i - 1] > 536870000
    /\ \E i \in 2..Len(input) : input[i] - input[i - 1] = -130
    /\ decoded.samples = input

C6_Step ==
    /\ (pc = "encode" /\ pc' = "decode") =>
           frameBlock'.numSamples >= 1 /\ frameBlock'.numSamples <= Len(data)
    /\ pc = "advance" =>
           /\ Len(data') < Len(data)
           /\ idx' = idx + frameBlock.numSamples
           /\ data' = SubSeq(input, idx' + 1, Len(input))
           /\ output' = SubSeq(input, 1, idx')

FirstDiff(version, dataBytes) ==
    At(IF version = 1 THEN extractSteim1Samples(dataBytes, 0)
       ELSE extractSteim2Samples(dataBytes, 0).vals, 3)

RECURSIVE WordsCarried(_, _, _, _)
WordsCarried(version, dataBytes, offset, i) ==
    IF i > 15 THEN 0
    ELSE LET currNibble == TwoBits(getUint32(dataBytes, offset), 30 - i * 2)
             here == IF currNibble = 0 THEN 0
                     ELSE IF version = 1 THEN Len(Steim1Word(dataBytes, offset, i))
                     ELSE Len(Steim2Word(dataBytes, offset, i).vals)
         IN  here + WordsCarried(version, dataBytes, offset, i + 1)

RECURSIVE DiffsCarried(_, _, _)
DiffsCarried(version, dataBytes, k) ==
    IF k >= Len(dataBytes) \div 64 THEN 0
    ELSE WordsCarried(version, dataBytes, k * 64, 1) + DiffsCarried(version, dataBytes, k + 1)

\* C8: Steim decode count check: decoding a block with requested count N is an
\* error exactly when the frames carry fewer than N differences; words whose
\* 2-bit code is 00 contribute no samples, so decoding encode(X) with a count
\* N > |X| is an error.
C8_DecodeCountCheck ==
    pc \in {"advance", "probe"} =>
        /\ decoded.err <=> DiffsCarried(steimVersion, BlockPack(frameBlock), 0) < decodeCount
        /\ (frames = 0 /\ decodeCount > Len(EncodeArg)) => decoded.err

(***************************************************************************)
(* Properties of miniSEED-3 records.                                       *)
(***************************************************************************)
\* the extra headers a record holds, as the items of the dict its property eh
\* gives (None and the empty dict hold none)
ehItems(rec) == IF ehGet(rec).val.kind = "dict" THEN ehGet(rec).val.val ELSE << >>

\* the record was packed and its bytes, unchanged, parsed with the CRC check on
RoundTripDone == pc = "unpacked" /\ tamperAt = -1 /\ checkCrc

\* C3: a record with in-range header fields that is packed and parsed by
\* unpackMSeed3Record with the CRC check on comes back without an error and with
\* the same flags, time fields, encoding, sampleRatePeriod, numSamples,
\* publicationVersion, identifier, extra headers and samples; the packed bytes
\* are 40 + identifierLength + extraHeadersLength + dataLength long and bytes
\* 28..31 are the CRC-32C of the bytes with those four zeroed
C3_RecordRoundTrip ==
    /\ pc # "packError"
    /\ pc \in {"packed", "unpacked", "read"} /\ tamperAt = -1 =>
          /\ Len(wire) = 40 + record.header.identifierLength
                            + record.header.extraHeadersLength + record.header.dataLength
          /\ SubSeq(wire, 29, 32) = CrcLE(crc32c(PutCrc(wire, << 0, 0 >>), << 0, 0 >>))
    /\ RoundTripDone =>
          /\ ~unpacked.err
          /\ \A f \in {"flags", "nanosecond", "year", "dayOfYear", "hour", "minute", "second",
                       "encoding", "sampleRatePeriod", "numSamples", "publicationVersion"} :
                unpacked.rec.header[f] = record.header[f]
          /\ unpacked.rec.identifier = record.identifier
          /\ ~ehGet(unpacked.rec).err
          /\ ehItems(unpacked.rec) = ehItems(record)
          /\ ~RecordDecompress(record).err
          /\ RecordDecompress(unpacked.rec) = RecordDecompress(record)

\* a float array with two extra headers, an identifier outside ASCII and the
\* header fields at the end of their ranges has made the round trip
C3_Witness ==
    /\ RoundTripDone
    /\ ~unpacked.err
    /\ record.data.kind = "ndarray" /\ record.header.encoding = FLOAT
    /\ record.eh.kind = "dict" /\ Len(record.eh.val) = 2
    /\ record.identifier = << 233 >>
    /\ record.header.second = 60 /\ record.header.flags = 255

\* C4: after one byte of the payload of a packed record is changed, both
\* unpackMSeed3Record and readMSeed3Records with the CRC check on fail with the
\* CRC mismatch and give no record; with check_crc False the same bytes parse
C4_CrcTamperDetected ==
    /\ pc = "unpacked" /\ tamperAt >= 0 /\ checkCrc =>
          unpacked.err /\ unpacked.why = "crc" /\ unpacked.rec = NoRecord
    /\ pc = "read" /\ tamperAt >= 0 /\ checkCrc =>
          readOut.err /\ readOut.why = "crc" /\ readOut.out = << >>
    /\ pc = "unpacked" /\ tamperAt >= 0 /\ ~checkCrc =>
          ~unpacked.err /\ unpacked.rec.data.val # encodedDataBytes(record)
    /\ pc = "read" /\ tamperAt >= 0 /\ ~checkCrc =>
          ~readOut.err /\ Len(readOut.out) = 1

\* the last byte of a Steim2 payload was changed in all its bits and
\* readMSeed3Records, the CRC check on, has raised the CRC mismatch
C4_Witness ==
    /\ pc = "read" /\ checkCrc
    /\ record.header.encoding = STEIM2
    /\ tamperAt = Len(wire) - 1
    /\ wire[Len(wire)] = Xor8(encodedDataBytes(record)[record.header.dataLength], 255)
    /\ readOut.err /\ readOut.why = "crc"


(***************************************************************************)
(* Properties of the merge.                                                *)
(***************************************************************************)
\* mseed3merge has returned from a call with two records
MergedBoth == pc = "merged" /\ recA # None /\ recB # None

\* the mergeable pairs: same identifier, sampleRatePeriod, encoding (one of 1..5)
\* and publicationVersion, the first ends before the second starts, and the
\* second starts less than half a sample period after the time predicted for it
Mergeable(a, b) ==
    /\ a.identifier = b.identifier
    /\ a.header.sampleRatePeriod = b.header.sampleRatePeriod
    /\ a.header.encoding = b.header.encoding
    /\ a.header.encoding \in 1..5
    /\ a.header.publicationVersion = b.header.publicationVersion
    /\ ~endtime(a.header).err
    /\ ~starttime(b.header).err
    /\ TimeLess(endtime(a.header).t, starttime(b.header).t)
    /\ TwiceDiffLess(starttime(b.header).t,
                     PlusMicros(starttime(a.header).t,
                                samplePeriod(a.header).micros * a.header.numSamples),
                     samplePeriod(a.header).micros)

\* C9: for two mergeable records a and b of a primitive encoding mseed3merge
\* returns one new record: its numSamples is the sum of theirs, its payload
\* decodes to the samples of a followed by those of b, and its identifier, start
\* time, sample rate, encoding and extra headers are those of a
C9_MergeCorrect ==
    (MergedBoth /\ Mergeable(recA, recB)
         /\ recA.header.encoding \in {SHORT, INTEGER, FLOAT, DOUBLE}) =>
       /\ ~mergeOut.err
       /\ Len(mergeOut.out) = 1
       /\ mergeOut.out[1] # recA /\ mergeOut.out[1] # recB
       /\ mergeOut.out[1].header.numSamples = recA.header.numSamples + recB.header.numSamples
       /\ ~RecordDecompress(recA).err /\ ~RecordDecompress(recB).err
       /\ RecordDecompress(mergeOut.out[1]) =
              [err |-> FALSE,
               samples |-> RecordDecompress(recA).samples \o RecordDecompress(recB).samples]
       /\ mergeOut.out[1].identifier = recA.identifier
       /\ \A f \in {"year", "dayOfYear", "hour", "minute", "second", "nanosecond",
                    "sampleRatePeriod", "encoding"} :
             mergeOut.out[1].header[f] = recA.header[f]
       /\ ehItems(mergeOut.out[1]) = ehItems(recA)

\* two int16 samples given as bytes, extra headers k and m, sample period 2 s, and
\* three int16 samples in an array that start 999999 us late were merged into five
C9_Witness ==
    /\ MergedBoth /\ Mergeable(recA, recB)
    /\ recA.header.encoding = SHORT /\ recA.data.kind = "bytes" /\ recB.data.kind = "ndarray"
    /\ recA.header.sampleRatePeriod = F64(-2)
    /\ starttime(recB.header).t = PlusMicros(MergeEpoch, 4999999)
    /\ ehItems(recA) = << << 107, 1 >>, << 109, 2 >> >>
    /\ Len(mergeOut.out) = 1
    /\ mergeOut.out[1].header.numSamples = 5
    /\ RecordDecompress(mergeOut.out[1]).samples = << 1, -2, 7, 8, -32768 >>

\* C10: mseed3merge returns one merged record only for a mergeable pair, and for
\* every other pair of records it returns the list of the two, unchanged
C10_MergeOnlyWhenMergeable ==
    MergedBoth =>
       /\ (~mergeOut.err /\ Len(mergeOut.out) = 1) => Mergeable(recA, recB)
       /\ ~Mergeable(recA, recB) => (~mergeOut.err /\ mergeOut.out = << recA, recB >>)


(***************************************************************************)
(* Properties of the merge of an input and of three records.               *)
(***************************************************************************)
\* C14: a call of mseed3merge leaves both records as they were, whether it
\* merges or not: header, identifier, payload and stored extra headers, so that
\* packing the first record after the call gives the bytes it gave before
C14_MergeLeavesInputs ==
    [][Merge =>
          /\ recA' = recA
          /\ recB' = recB
          /\ recA # None => RecordPack(recA').recordBytes = RecordPack(recA).recordBytes]_vars

\* both ways of merging the three records were taken
BothWays == pc = "both" /\ ~leftOut.err /\ ~rightOut.err

OneLeft == Len(leftOut.out) = 1
OneRight == Len(rightOut.out) = 1

\* the two results are one record each, with the same start time, numSamples
\* and payload
SameMerged ==
    /\ OneLeft /\ OneRight
    /\ starttime(leftOut.out[1].header) = starttime(rightOut.out[1].header)
    /\ leftOut.out[1].header.numSamples = rightOut.out[1].header.numSamples
    /\ encodedDataBytes(leftOut.out[1]) = encodedDataBytes(rightOut.out[1])

\* the second record starts at the time predicted from the first
StartsAsPredicted(a, b) ==
    starttime(b.header).t
        = PlusMicros(starttime(a.header).t, samplePeriod(a.header).micros * a.header.numSamples)

FirstCarried(rec) ==
    IF rec.header.encoding = 0 THEN rec.data.val[1] - 96
    ELSE RecordDecompress(rec).samples[1] \div 10

LastCarried(rec) ==
    IF rec.header.encoding = 0 THEN rec.data.val[Len(rec.data.val)] - 96
    ELSE RecordDecompress(rec).samples[rec.header.numSamples] \div 10

\* C11: readMSeed3Records yields in the byte order of the input, also with
\* merge=True and whatever the encodings: a record yielded earlier carries only
\* samples of input records that come before those of a record yielded later
C11_ReaderOrder ==
    \A i, j \in 1..Len(yielded) :
        i < j => LastCarried(yielded[i]) < FirstCarried(yielded[j])

\* the samples of the records of a sequence, one record after the other
RECURSIVE SamplesOfAll(_)
SamplesOfAll(recs) ==
    IF recs = << >> THEN << >>
    ELSE RecordDecompress(Head(recs)).samples \o SamplesOfAll(Tail(recs))

RECURSIVE SumNumSamples(_)
SumNumSamples(recs) ==
    IF recs = << >> THEN 0 ELSE Head(recs).header.numSamples + SumNumSamples(Tail(recs))

\* the look-behind as a sequence of no or one record
Pending == IF prev = None THEN << >> ELSE << prev >>

\* the reader merges, without a filter, a file of decompressible records
MergingDecompressible ==
    /\ merge /\ matchsid = None
    /\ \A k \in 1..Len(stream) : canDecompress(stream[k].header.encoding)

\* the places k where the decompressed k-th and k+1-th record are not mergeable
Breaks ==
    { k \in 1..(Len(stream) - 1) :
        ~Mergeable(decompressedRecord(stream[k]).rec, decompressedRecord(stream[k + 1]).rec) }

Boundaries == { Len(FileOf(SubSeq(stream, 1, k))) : k \in 0..Len(stream) }

\* the records of a sequence whose identifier the filter matches
RECURSIVE Matching(_)
Matching(recs) ==
    IF recs = << >> THEN << >>
    ELSE (IF search(matchsid, Head(recs).identifier) THEN << Head(recs) >> ELSE << >>)
             \o Matching(Tail(recs))

\* a record read from the file is the record written: the header as pack left
\* it, the identifier, the payload and the extra headers
ReadIntact(got, written) ==
    /\ got.header = RecordPack(written).rec.header
    /\ got.identifier = written.identifier
    /\ got.data = written.data
    /\ got.eh.kind = "str"
    /\ got.eh.val = (IF written.eh.kind = "str" THEN written.eh.val ELSE << >>)

\* the reader filters, without merging
Filtering == matchsid # None /\ ~merge

\* C13: with a filter readMSeed3Records raises nothing, every pass ends where a
\* record of the file starts or at the end of the file (a record whose
\* identifier does not match is skipped by extraHeadersLength + dataLength
\* bytes), and when it has finished it has yielded the records whose identifier
\* matches, intact and in the order of the input, and no other
C13_ReaderFilter ==
    Filtering =>
       /\ pc # "readerError"
       /\ fileptr.pos \in Boundaries
       /\ pc = "finished" =>
             /\ fileptr.pos = Len(fileptr.bytes)
             /\ Len(yielded) = Len(Matching(stream))
             /\ \A i \in 1..Len(yielded) : ReadIntact(yielded[i], Matching(stream)[i])

\* a file that ends with a record FDSN:Y with extra headers between two
\* records FDSN:X, read with the filter "X"
C13_Witness ==
    /\ Filtering
    /\ matchsid = [pattern |-> << 88 >>]
    /\ pc = "finished"
    /\ Len(stream) = 3
    /\ stream[1].identifier = FDSN_X /\ stream[2].identifier = FDSN_Y
    /\ stream[3].identifier = FDSN_X
    /\ hasExtraHeaders(stream[2])
    /\ Len(yielded) = 2
    /\ yielded[2].data = stream[3].data

(***************************************************************************)
(* Properties of miniSEED-2 records and of the converter.                  *)
(***************************************************************************)

\* the record of the file has been parsed and converted
Converted == pc = "converted" /\ ~converted.err

\* the start time the fixed header of the record of the file holds
FileBTime == unpackMiniseedHeader(fileRecord, guessEndianChar(fileRecord)).header.starttime

\* the blockette 1001 the record of the file carries, or None
FileB1001 == lastBlockette(parsed.rec.blockettes, 1001, FALSE, Len(parsed.rec.blockettes))

\* the BTime of the file plus the microseconds of its blockette 1001
FileStart ==
    datetimePlus(FileBTime, IF FileB1001 = None THEN 0 ELSE FileB1001.microseconds)

\* C16: the start time of mseed2to3(record) is the BTime of the record plus
\* the microseconds of its blockette 1001 where it has one, whatever the time
\* quality, and the plain BTime otherwise, to the nanosecond
C16_ConvertedStartTime ==
    Converted =>
       /\ ~starttime(converted.rec.header).err
       /\ starttime(converted.rec.header).t = FileStart
       /\ converted.rec.header.nanosecond = 1000 * FileStart.us

\* C23: the header of mseed2to3(record) has its nanosecond in 0..999999999,
\* its second in 0..60, its minute in 0..59, its hour in 0..23 and its
\* dayOfYear in 1..366, whatever the tenth-milliseconds of the BTime and the
\* microseconds byte of the blockette 1001
C23_NormalizedTime ==
    Converted =>
       /\ converted.rec.header.nanosecond \in 0..999999999
       /\ converted.rec.header.second \in 0..60
       /\ converted.rec.header.minute \in 0..59
       /\ converted.rec.header.hour \in 0..23
       /\ converted.rec.header.dayOfYear \in 1..366

\* bit k of a byte
BitOf(v, k) == (v \div Pow2(k)) % 2

\* C17: the flags of mseed2to3(record) have bit 1 set iff bit 0 of the
\* activity flags is set, bit 2 iff bit 6 of the I/O flags is set, bit 3 iff
\* bit 4 of the quality flags is set, and no other bit, so they fit one byte
C17_FlagMapping ==
    Converted =>
       /\ converted.rec.header.flags < 256
       /\ converted.rec.header.flags =
              2 * BitOf(At(fileRecord, 36), 0) + 4 * BitOf(At(fileRecord, 37), 6)
                  + 8 * BitOf(At(fileRecord, 38), 4)

\* the record built has been packed and its bytes handed to unpackMiniseedRecord
Unpacked == pc = "unpacked" /\ ~packedOut.err

\* C18: for a record built from a header and int16, int32, float32 or float64
\* samples, unpackMiniseedRecord(record.pack()) raises nothing and has the
\* codes, the start time, the numSamples, the encoding and the byte order of
\* the record, and decompresses to its samples
C18_RoundTrip2 ==
    Unpacked =>
       /\ ~outmsr.err
       /\ outmsr.rec.header.network = msr.header.network
       /\ outmsr.rec.header.station = msr.header.station
       /\ outmsr.rec.header.location = msr.header.location
       /\ outmsr.rec.header.channel = msr.header.channel
       /\ outmsr.rec.header.starttime = msr.header.starttime
       /\ outmsr.rec.header.numSamples = msr.header.numSamples
       /\ outmsr.rec.header.encoding = msr.header.encoding
       /\ outmsr.rec.header.byteorder = msr.header.byteorder
       /\ ~decompressed(outmsr.rec).err
       /\ decompressed(outmsr.rec).samples = msr.data.val

\* the lengths a record may have: the powers of two from 256 to 4096
LegalLengths == { Pow2(e) : e \in 8..12 }

\* the record length exponent the blockette 1000 of a packed record declares,
\* the blockette 1000 being the first of its chain
DeclaredLengthExp(recordBytes) == At(recordBytes, UnpackH(">", recordBytes, 46) + 6)

\* what pack returned is a record of a legal length that its blockette 1000 declares
LengthDeclared(packed) ==
    ~packed.err =>
       /\ Len(packed.recordBytes) \in LegalLengths
       /\ UnpackH(">", packed.recordBytes, UnpackH(">", packed.recordBytes, 46)) = 1000
       /\ Len(packed.recordBytes) = Pow2(DeclaredLengthExp(packed.recordBytes))

\* C19: the bytes MiniseedRecord.pack() returns have a length that is a power
\* of two from 256 to 4096 and that the blockette 1000 in them declares, for a
\* record built and for a record parsed from the bytes of a file and packed
\* again
C19_RecordLength ==
    /\ pc # "build" => LengthDeclared(packedOut)
    /\ pc = "cloned" => LengthDeclared(repacked)

(***************************************************************************)
(* Properties of the source ids.                                           *)
(***************************************************************************)

\* C20: for a source id of any of the four levels that validate() reports
\* valid, FDSNSourceId.parse(str(id)) raises nothing and returns an id of the
\* same class that is equal to id, code by code
C20_SourceIdRoundTrip ==
    (pc = "sidParsed" /\ sidValid) =>
       /\ ~sidParsed.err
       /\ sidParsed.id.class = sid.class
       /\ SourceIdEq(sid, sidParsed.id)
       /\ sidParsed.id = sid

(***************************************************************************)
(* Properties of the seed-style codes.                                     *)
(***************************************************************************)

\* the channel code given is b_s_t: one character, the separator, a source of
\* [A-Z0-9]+, the separator and a subsource of [A-Z0-9]*
IsBandSourceSubsource(chan) ==
    LET items == split(chan, SEP, << >>)
    IN  /\ Len(items) = 3
        /\ Len(items[1]) = 1
        /\ Len(items[2]) >= 1
        /\ \A k \in 1..Len(items[2]) : items[2][k] \in UpperOrDigit
        /\ \A k \in 1..Len(items[3]) : items[3][k] \in UpperOrDigit

\* the source and the subsource of a channel code b_s_t have one character each
SingleCharacters(chan) == Len(chan) = 5 /\ chan[2] = SEP /\ chan[4] = SEP

\* the network, the station and the location given are those of the NslcId
CodesRestored ==
    /\ nslcOut.networkCode = nslcIn.networkCode
    /\ nslcOut.stationCode = nslcIn.stationCode
    /\ nslcOut.locationCode = nslcIn.locationCode

RateGiven == IF sampRatePeriod.num > 0 THEN sampRatePeriod
             ELSE Fraction(sampRatePeriod.den, -1 * sampRatePeriod.num)

\* the rate given is at least lo and below hi, both whole numbers of 1 / unit
RateWithin(lo, hi, unit) ==
    /\ RateGiven.num * unit >= lo * RateGiven.den
    /\ RateGiven.num * unit < hi * RateGiven.den

\* a lower bound of the response is given and is below 0.1 Hz, a negative
\* bound -p being 1 / p
ResponseBelowTenth ==
    /\ response_lb.kind # "none"
    /\ IF response_lb.num >= 0 THEN response_lb.num * 10 < response_lb.den
       ELSE response_lb.den * 10 < -1 * response_lb.num

\* C22: for a rate in 0.1 <= r < 1 bandCodeForRate returns V, for r = 1 L, for
\* 1 < r < 10 M, for 10 <= r < 80 S, or B with a response lower bound below
\* 0.1 Hz; a negative argument -p is the rate 1 / p; 0 and None give I; and it
\* raises nothing
C22_BandByRate ==
    pc = "band" =>
       /\ ~band.err
       /\ (sampRatePeriod.kind = "none" \/ sampRatePeriod.num = 0) => band.band = << 73 >>
       /\ (sampRatePeriod.kind # "none" /\ sampRatePeriod.num # 0) =>
             /\ RateWithin(1, 10, 10) => band.band = << 86 >>
             /\ RateGiven.num = RateGiven.den => band.band = << 76 >>
             /\ (RateWithin(1, 10, 1) /\ RateGiven.num # RateGiven.den) => band.band = << 77 >>
             /\ RateWithin(10, 80, 1) =>
                   band.band = (IF ResponseBelowTenth THEN << 66 >> ELSE << 83 >>)

(***************************************************************************)
(* Properties of the miniSEED-2 parser.                                    *)
(***************************************************************************)

\* the byte is 7 or 8
Plausible(byte) == byte \in { 7, 8 }

\* unpackFixedHeaderGuessByteOrder gave what unpackMiniseedHeader reads in the
\* byte order, with that byte order
ReadAs(endianChar) ==
    LET read == unpackMiniseedHeader(chainBytes, endianChar)
    IN  /\ chainHeader.err = read.err
        /\ ~read.err => chainHeader.header =
                            [read.header EXCEPT
                                !.byteorder = IF endianChar = ">" THEN BIG_ENDIAN
                                              ELSE LITTLE_ENDIAN]

\* C24: the record is read big-endian iff byte 20 is 7 or 8 and byte 21 is
\* not, little-endian iff byte 21 is 7 or 8 and byte 20 is not, and is
\* rejected with an error in every other case
C24_ByteOrderGuess ==
    (pc # "guess" /\ chainBlockettes = << >> /\ chainOut = NoResult2) =>
        /\ (Plausible(At(chainBytes, 20)) /\ ~Plausible(At(chainBytes, 21))) => ReadAs(">")
        /\ (Plausible(At(chainBytes, 21)) /\ ~Plausible(At(chainBytes, 20))) => ReadAs("<")
        /\ (Plausible(At(chainBytes, 20)) <=> Plausible(At(chainBytes, 21))) => chainHeader.err

\* C25: the loop over the chain of blockettes ends: a turn of it that does
\* not end it goes on to a strictly greater offset, a nextOffset that is not
\* zero and not greater than the offset of its blockette being refused with an
\* error
C25_ChainTerminates ==
    [][(pc = "chain" /\ pc' = "chain") => chainOffset' > chainOffset]_vars

(***************************************************************************)
(* Properties of the Steim decoders and encoders.                          *)
(***************************************************************************)

\* the payload has a frame whose W0 has a code of its own that is not 00
W0CodeSet == \E frame \in 0..((Len(w0Bytes) \div 64) - 1) : At(w0Bytes, 64 * frame) \div 64 # 0

\* C26: decodeSteim1 and decodeSteim2 raise an error for a payload with a
\* frame whose W0 has a top two-bit code other than 00
C26_W0CodeChecked == (pc = "w0Decoded" /\ W0CodeSet) => w0Decoded.err

\* C27: in the block the encoder returns, word 1 of frame 0 is the first
\* sample given and word 2 of frame 0 is the last sample the block holds,
\* samples[numSamples - 1], whether all samples were taken or the frame cap
\* ended the encoding before
C27_IntegrationConstants ==
    pc = "decode" =>
       /\ frameBlock.numSamples \in 1..Len(EncodeArg)
       /\ frameBlock.steimFrameList[1].word[2] = At(EncodeArg, 0)
       /\ frameBlock.steimFrameList[1].word[3] = At(EncodeArg, frameBlock.numSamples - 1)

\* a block the frame cap ended before the last sample, which differs from the
\* last sample the block holds
C27_Witness ==
    /\ pc = "decode"
    /\ frameBlock.numSamples < Len(EncodeArg)
    /\ At(EncodeArg, frameBlock.numSamples - 1) # At(EncodeArg, Len(EncodeArg) - 1)

\* the samples a word of a Steim1 frame stands for by its code in W0: four
\* 8-bit differences for 01, two 16-bit differences for 10, one 32-bit
\* difference for 11
SamplesOfCode(code) == IF code = 1 THEN 4 ELSE IF code = 2 THEN 2 ELSE IF code = 3 THEN 1 ELSE 0

\* the samples the words i..15 of a frame stand for by their codes
RECURSIVE SamplesOfFrame(_, _)
SamplesOfFrame(frame, i) ==
    IF i > 15 THEN 0
    ELSE SamplesOfCode(TwoBits(Int32Bits(frame.word[1]), 30 - 2 * i))
             + SamplesOfFrame(frame, i + 1)

\* the samples the frames k.. of a list stand for by their codes
RECURSIVE SamplesOfFrames(_, _)
SamplesOfFrames(frameList, k) ==
    IF k > Len(frameList) THEN 0
    ELSE SamplesOfFrame(frameList[k], 1) + SamplesOfFrames(frameList, k + 1)

\* C29: every word the Steim1 encoder writes stands for 1, 2 or 4 samples,
\* never 3, as its code in W0 says (11: one, 10: two, 01: four), the last word
\* of an input included: the samples counted are those the codes stand for
C29_Steim1WordFill ==
    (pc = "decode" /\ steimVersion = 1) =>
        frameBlock.numSamples = SamplesOfFrames(frameBlock.steimFrameList, 1)

\* the sum of the samples arguments of the calls 1..n
RECURSIVE SamplesGiven(_, _)
SamplesGiven(p, n) == IF n = 0 THEN 0 ELSE SamplesOf(p, n) + SamplesGiven(p, n - 1)

\* the two-bit code at bit (15 - i) * 2 of the W0 of a frame
CodeAt(frame, i) == TwoBits(Int32Bits(frame.word[1]), (15 - i) * 2)

\* C28: after the calls of addEncodedWord up to the first that returns full,
\* every frame has 16 words, the cursor of the open frame is in 1..15, the
\* code of W0 itself is 00, the code of word i is at bit (15 - i) * 2 of W0
\* and is the nibble passed for the word, numSamples is the sum of the samples
\* passed, the frames are no more than a cap that is not zero, and full is
\* returned exactly by the call that writes word 15 of the frame number cap
C28_WriterInvariants ==
    pc \in { "write", "full" } =>
       LET frameList == writerBlock.steimFrameList
           cap == writerBlock.maxNumFrames
       IN  /\ Len(frameList) = (writerCalls + 14) \div 15
           /\ \A k \in 1..Len(frameList) :
                 /\ DOMAIN frameList[k].word = 1..16
                 /\ CodeAt(frameList[k], 0) = 0
                 /\ \A i \in 1..15 :
                       IF 15 * (k - 1) + i <= writerCalls
                       THEN /\ CodeAt(frameList[k], i) =
                                   NibbleOf(writerPattern, 15 * (k - 1) + i)
                            /\ frameList[k].word[i + 1] =
                                   WordOf(writerPattern, 15 * (k - 1) + i)
                       ELSE /\ CodeAt(frameList[k], i) = 0
                            /\ frameList[k].word[i + 1] = 0
           /\ IF writerCalls % 15 = 0 THEN writerBlock.currentSteimFrame = 0
              ELSE /\ writerBlock.currentSteimFrame = Len(frameList)
                   /\ frameList[Len(frameList)].pos = (writerCalls % 15) + 1
                   /\ frameList[Len(frameList)].pos \in 1..15
           /\ writerBlock.numSamples = SamplesGiven(writerPattern, writerCalls)
           /\ cap > 0 => Len(frameList) <= cap
           /\ writerFull <=> (cap > 0 /\ writerCalls = 15 * cap)
           /\ writerFull <=> pc = "full"

\* the call that wrote word 15 of the second frame of a block of two frames
\* returned full, the words having all four codes
C28_Witness ==
    /\ pc = "full"
    /\ writerBlock.maxNumFrames = 2
    /\ writerCalls = 30
    /\ writerPattern.a = 1

(***************************************************************************)
(* Properties of the reader and the parser of single records.              *)
(***************************************************************************)

\* the file has been read and each of its records parsed
BothDone == pc = "fileParsed"

\* the number of the first record of the file unpackMSeed3Record raises for,
\* 0 where it raises for none
FirstRefused ==
    IF \A k \in 1..Len(agreeParsed) : ~agreeParsed[k].err THEN 0
    ELSE CHOOSE k \in 1..Len(agreeParsed) :
             /\ agreeParsed[k].err
             /\ \A j \in 1..(k - 1) : ~agreeParsed[j].err

\* C30: readMSeed3Records without filter and merge yields, record by record,
\* the header, the identifier, the extra headers and the payload
\* unpackMSeed3Record returns for the bytes of the record, raises for the first
\* record unpackMSeed3Record raises for, with the same error (a CRC error
\* exactly where unpackMSeed3Record raises one), and yields nothing after it
C30_ReaderAgreesWithParser ==
    BothDone =>
       /\ agreeRead.err = (FirstRefused # 0)
       /\ FirstRefused # 0 => agreeRead.why = agreeParsed[FirstRefused].why
       /\ Len(agreeRead.out) = (IF FirstRefused = 0 THEN Len(agreeRecords)
                                ELSE FirstRefused - 1)
       /\ \A k \in 1..Len(agreeRead.out) : agreeRead.out[k] = agreeParsed[k].rec

\* a file of three records whose second has its last byte changed: the reader
\* yielded the first record and raised the CRC error
C30_Witness ==
    /\ BothDone
    /\ Len(agreeRecords) = 3
    /\ agreeCrc
    /\ agreeParsed[2].err
    /\ agreeParsed[2].why = "crc"
    /\ ~agreeParsed[3].err
    /\ Len(agreeRead.out) = 1

====
